---- MODULE Spec2Model ----
(***************************************************************************)
(* Habit-state engine of la-web-definitiva-backend.                        *)
(*                                                                         *)
(* The repository holds two generations of the store:                      *)
(*   - src/database.py : class Database keyed by Telegram chat_id, table   *)
(*     habitos(chat_id, fecha, habito, completado); it is the module that  *)
(*     src/main.py imports (bot handlers + HTTP endpoints).                *)
(*   - src/config.py   : class Database keyed by user_id, tables users,    *)
(*     habitos_config, habitos_diarios, recordatorios_config, opened with  *)
(*     PRAGMA foreign_keys = ON.                                           *)
(* A behaviour of the model is a behaviour of one deployment:              *)
(*   deploy = "main"    main.py over database.py; every handler runs on    *)
(*                      the one asyncio loop and its store calls contain   *)
(*                      no await, so a handler's store access is one step. *)
(*   deploy = "store"   calls of the config.py Database, one at a time:     *)
(*                      accounts, habit definitions and completions.       *)
(*   deploy = "avisos"  calls of the config.py Database, one at a time:     *)
(*                      accounts and reminder configuration (no statement  *)
(*                      touches both the reminder and the habit tables).   *)
(*   deploy = "threads" two callers inside Database.toggle_habito of       *)
(*                      config.py at once; each call is its SELECT         *)
(*                      followed by its UPDATE/INSERT + commit.            *)
(* The query specification (SpecConsulta) starts from a populated store   *)
(* and runs the habits-for-date query of either class on it:              *)
(*   deploy = "consulta"       Database.get_habitos_hoy of config.py       *)
(*   deploy = "consulta_main"  Database.get_habitos_hoy of database.py     *)
(* Further specifications start one part of the program from the states   *)
(* that part can be in:                                                    *)
(*   SpecBot       the scheduler of main.py: the clock, the four cron jobs *)
(*                 and the per-user loop of enviar_recordatorio.           *)
(*   SpecResumen   /resumen of main.py over chats with 0..5 habits done.   *)
(*   SpecSemana    GET /api/habitos/semana/{fecha}; dates are character    *)
(*                 sequences parsed and formatted as datetime does.        *)
(*   SpecAvisos    the reminder table of config.py with active and         *)
(*                 inactive rows of two accounts.                          *)
(*   SpecSesiones  the token table of the Session Authenticator, which     *)
(*                 has no code under src (deploy = "sesiones").            *)
(*   SpecVida      lifespan of main.py, statement by statement, with the   *)
(*                 scheduler, the sends and /start running alongside.      *)
(*   SpecVinculo   the chat link of config.py (deploy = "vinculo").        *)
(*   SpecBarra     the counts of the summaries when a callback names a     *)
(*                 habit outside the five.                                 *)
(*                                                                         *)
(* Tables are sets of rows.  No statement reads the AUTOINCREMENT id of a  *)
(* completion row (habitos, habitos_diarios); it is kept as "copia", the   *)
(* rank of the row among the rows of its key in id order, which is what    *)
(* tells two rows of one key apart.  habitos_config and                    *)
(* recordatorios_config carry their ids and their sqlite_sequence.  SQL    *)
(* integers 0/1 stay integers and are turned into booleans where the code  *)
(* calls bool().                                                           *)
(***************************************************************************)
EXTENDS Integers, Sequences, FiniteSets, TLC

\* ------------------------------------------------------------------ bounds
MaxRows == 2          \* completion rows per table
MaxHcId == 3          \* habitos_config ids handed out by AUTOINCREMENT
MaxRcId == 4          \* recordatorios_config ids handed out by AUTOINCREMENT
MaxRun  == 3          \* longest run of consecutive toggles that is tracked
MaxItems == 2         \* ids handed out by AUTOINCREMENT for a table of items
MaxGuardar == 6       \* habitos_config ids handed out where only the saves run

Chats    == {1, 2}
Nombres  == {"Ana", "Bea"}
Fechas   == {"2026-02-17", "2026-02-18"}
Manana(f) == IF f = "2026-02-17" THEN "2026-02-18" ELSE f

\* habit names offered to the toggle entry points ("nadar" is not a habit)
HabitosPedidos == {"leer", "meditar", "nadar"}

\* callback_data of the inline buttons, already split on "_"
CallbackData == { <<"habito", h, "toggle">> : h \in {"leer", "meditar"} }

Emails   == {"a@x.com", "b@x.com"}
UserIds  == 1..Cardinality(Emails)
\* habito_config_id values the callers of toggle_habito name

None == -1            \* Python None / SQL NULL among numbers
Nulo == "<null>"      \* JSON null / Python None / SQL NULL among strings
\* a JSON array or object among the strings: a Python list or dict, which
\* sqlite3 has no adapter for and cannot bind to a "?"
Lista == "<list>"

\* items of a habit list as the API hands them to guardar_habitos_config:
\* the second item of the third list lacks the key "nombre", the second item
\* of the fourth has a null nombre
H1    == [nombre |-> "leer", emoji |-> "libro"]
ListasHabitos ==
  { <<H1>>, <<[nombre |-> "meditar"], H1>>,
    <<[nombre |-> "ducha", emoji |-> "gota"], [emoji |-> "gota"]>>,
    <<[nombre |-> "ducha"], [nombre |-> Nulo, emoji |-> "gota"]>> }

\* items of a reminder list: the second item of the third list lacks the key
\* "hora", the fourth list has a null hora, the fifth a null tipo after a
\* good item
R1    == [tipo |-> "manana", hora |-> "07:00"]
R2    == [tipo |-> "noche", hora |-> "22:00"]
ListasRecordatorios ==
  { <<R1>>, <<R2, R1>>, <<R2, [tipo |-> "noche"]>>,
    <<[tipo |-> "noche", hora |-> Nulo]>>,
    <<R1, [tipo |-> Nulo, hora |-> "22:00"]>> }

Threads == {1, 2}

VARIABLES
  deploy,               \* the deployment the behaviour is of
  hoy,                  \* datetime.now(MADRID).strftime("%Y-%m-%d")
  users,                \* database.py: users(chat_id, nombre)
  habitos,              \* database.py: habitos(copia, chat_id, fecha, habito, completado)
  libros,               \* database.py: libros(id, titulo)
  libros_seq,           \* database.py: sqlite_sequence of libros
  users_cfg,            \* config.py: users(id, email, telegram_chat_id)
  user_config,          \* config.py: user_config(user_id, zona_horaria, idioma)
  habitos_config,       \* config.py: habitos_config(id, user_id, nombre, emoji, orden, activo)
  hc_seq,               \* config.py: sqlite_sequence of habitos_config
  habitos_diarios,      \* config.py: habitos_diarios(copia, user_id, habito_config_id, fecha, completado)
  recordatorios_config, \* config.py: recordatorios_config(id, user_id, tipo, hora, activo)
  rc_seq,               \* config.py: sqlite_sequence of recordatorios_config
  rutinas_config,       \* config.py: rutinas_config(user_id, tipo, paso, emoji, orden)
  items,                \* config.py: the rows (tabla, id, user_id, campos) of the item tables
  items_seq,            \* config.py: sqlite_sequence of each item table
  leak,                 \* a connection that raised is still open and holds the write lock
  calls,                \* threads: per-caller position and locals inside toggle_habito
  bot,                  \* main.py: the Madrid clock, the reminder scan in progress
                        \* and the calls made to bot.send_message
  sessions,             \* the process-wide map token -> user id of the session authenticator
  last,                 \* the last call made and how it ended
  run                   \* the current run of consecutive toggles of last's key:
                        \* its length, the state the query reported before it,
                        \* and whether the key had a row before it

vars == << deploy, hoy, users, habitos, libros, libros_seq, users_cfg, user_config, habitos_config, hc_seq,
           habitos_diarios, recordatorios_config, rc_seq, rutinas_config, items, items_seq, leak,
           calls, bot, sessions,
           last, run >>

mainVars  == << users, habitos, libros, libros_seq, hoy >>
storeVars == << users_cfg, user_config, habitos_config, hc_seq, habitos_diarios,
                recordatorios_config, rc_seq, rutinas_config, items, items_seq, leak >>
otrosVars == << bot, sessions >>

\* lifespan with the scheduler started before anything else
lifespan_scheduler_primero ==
  << "configurar_recordatorios", "scheduler.start", "db.init", "initialize",
     "start_polling", "start", "yield",
     "scheduler.shutdown", "updater.stop", "stop", "shutdown" >>

\* the statements of lifespan in the order it runs them; the application
\* serves at the yield.  bot.fase is the number of statements that have run.
lifespan ==
  << "db.init", "initialize", "start_polling", "start",
     "configurar_recordatorios", "scheduler.start", "yield",
     "scheduler.shutdown", "updater.stop", "stop", "shutdown" >>

Hecho(fase, s) == \E i \in 1..fase : lifespan[i] = s
Sirviendo == CHOOSE i \in DOMAIN lifespan : lifespan[i] = "yield"
\* the tables exist
StoreListo(fase) == Hecho(fase, "db.init")
\* the Application dispatches updates to the handlers
BotAtiende(fase) == Hecho(fase, "start") /\ ~ Hecho(fase, "stop")
\* bot.send_message can be called
BotEnvia(fase) == Hecho(fase, "initialize") /\ ~ Hecho(fase, "shutdown")
\* the scheduler fires the triggers of its jobs
SchedulerActivo(fase) == Hecho(fase, "scheduler.start") /\ ~ Hecho(fase, "scheduler.shutdown")

NoCall == [op |-> "none", user |-> 0, hid |-> 0, fecha |-> "", arg |-> <<>>,
           raised |-> "none"]
NoRun  == [n |-> 0, orig |-> FALSE, fila |-> FALSE]
\* no reminder scan in progress.  A scan in progress is the coroutine
\* enviar_recordatorio suspended in "await bot.send_message" for the user at
\* position i of usuarios: texto is the text it handed to the call, fecha the
\* Madrid date of the call, listo whether the bot could send when it was made
NoScan == [tipo |-> "none", usuarios |-> <<>>, i |-> 0, texto |-> [titulo |-> "none"],
           fecha |-> "", listo |-> FALSE]
\* the bot outside the deployments that run the scheduler: the process is
\* serving
NoBot  == [reloj |-> <<0, 0>>, scan |-> NoScan, envios |-> <<>>, caidos |-> {},
           fase |-> Sirviendo]
\* a caller outside toggle_habito; antes and primero remember what the query
\* reported when the call began and whether it began before the other call
Idle   == [pc |-> "idle", user |-> 0, hid |-> 0, fecha |-> "", row |-> -1,
           raised |-> "none", antes |-> FALSE, primero |-> FALSE]

\* ------------------------------------------------ generic helpers (SQL, Python)

\* the methods of both stores execute, commit and close with no try/finally:
\* a statement that raised after the transaction began leaves its connection
\* open (no close on that path) with the write lock held.  (A value that
\* cannot be bound raises ProgrammingError before the statement runs: the
\* lock is held then only if an earlier statement of the method took it.)
Leaks(raised) == raised \in {"IntegrityError", "KeyError"}

\* bool(x) of a Python int
Bool(x) == x # 0

\* ORDER BY: P is a set of pairs <<sort key, row>>; the rows by ascending key
RECURSIVE OrderBy(_)
OrderBy(P) ==
  IF P = {} THEN <<>>
  ELSE LET m == CHOOSE x \in P : \A y \in P : x[1] <= y[1]
       IN  <<m[2]>> \o OrderBy(P \ {m})

\* ================================================================ database.py
HABITOS_DEFAULT == {"leer", "meditar", "ducha", "ejercicio", "proyecto"}

\* a plain INSERT INTO a table users that has no primary key
register_user_insert(t, chat_id, nombre) ==
  t \cup {[chat_id |-> chat_id, nombre |-> nombre]}

\* INSERT OR REPLACE INTO users: the row of chat_id, if any, is replaced
register_user(t, chat_id, nombre) ==
  {r \in t : r.chat_id # chat_id} \cup {[chat_id |-> chat_id, nombre |-> nombre]}

\* SELECT * FROM users: chat_id is the rowid, rows come in rowid order
get_all_users(t) == OrderBy({<<r.chat_id, r>> : r \in t})

\* get_habitos_hoy whose SELECT does not compare chat_id
get_habitos_hoy_sin_chat(t, chat_id, fecha) ==
  LET rows == {r \in t : r.fecha = fecha}
  IN  [h \in HABITOS_DEFAULT \cup {r.habito : r \in rows} |->
         \E r \in rows : r.habito = h /\ Bool(r.completado)]

\* the dict of get_habitos_hoy: the five defaults, overwritten by the rows
get_habitos_hoy(t, chat_id, fecha) ==
  LET rows == {r \in t : r.chat_id = chat_id /\ r.fecha = fecha}
  IN  [h \in HABITOS_DEFAULT \cup {r.habito : r \in rows} |->
         IF \E r \in rows : r.habito = h
         THEN Bool((CHOOSE r \in rows : r.habito = h).completado)
         ELSE FALSE]

\* toggle_habito whose INSERT leaves completado to its column default, 0
toggle_habito_default(t, chat_id, fecha, habito) ==
  LET rows == {r \in t : r.chat_id = chat_id /\ r.fecha = fecha /\ r.habito = habito}
  IN  IF rows # {}
      THEN LET row   == CHOOSE r \in rows : TRUE
               nuevo == IF Bool(row.completado) THEN 0 ELSE 1
           IN  (t \ rows) \cup {[r EXCEPT !.completado = nuevo] : r \in rows}
      ELSE t \cup {[copia |-> Cardinality(rows) + 1, chat_id |-> chat_id,
                    fecha |-> fecha, habito |-> habito, completado |-> 0]}

\* SELECT completado ...; UPDATE the row when there is one, INSERT (.., 1) otherwise
toggle_habito(t, chat_id, fecha, habito) ==
  LET rows == {r \in t : r.chat_id = chat_id /\ r.fecha = fecha /\ r.habito = habito}
  IN  IF rows # {}
      THEN LET row   == CHOOSE r \in rows : TRUE
               nuevo == IF Bool(row.completado) THEN 0 ELSE 1
           IN  (t \ rows) \cup {[r EXCEPT !.completado = nuevo] : r \in rows}
      ELSE t \cup {[copia |-> Cardinality(rows) + 1, chat_id |-> chat_id,
                    fecha |-> fecha, habito |-> habito, completado |-> 1]}

\* estados.get(habito, False)
Estado(t, chat_id, fecha, habito) ==
  LET estados == get_habitos_hoy(t, chat_id, fecha)
  IN  IF habito \in DOMAIN estados THEN estados[habito] ELSE FALSE

\* ==================================================================== main.py
\* the run of consecutive toggles after one more toggle of key <<u, h, f>>
NextRun(u, h, f, antes, fila) ==
  IF /\ run.n > 0 /\ run.n < MaxRun
     /\ last.user = u /\ last.hid = h /\ last.fecha = f
  THEN [run EXCEPT !.n = run.n + 1]
  ELSE [n |-> 1, orig |-> antes, fila |-> fila]

\* the toggle inserts a row only while the table is below its bound
Cabe(t, esNueva) == esNueva => Cardinality(t) < MaxRows

\* /start; the INSERT OR REPLACE of register_user raises while another
\* connection holds the write lock
cmd_start(chat_id, nombre) ==
  /\ deploy = "main"
  /\ BotAtiende(bot.fase)
  /\ users' = IF leak THEN users ELSE register_user(users, chat_id, nombre)
  /\ last' = [NoCall EXCEPT !.op = "cmd_start", !.user = chat_id,
                            !.raised = IF leak THEN "OperationalError" ELSE "none"]
  /\ run' = NoRun
  /\ UNCHANGED << deploy, otrosVars, hoy, habitos, libros, libros_seq, storeVars, calls >>

\* an inline button was pressed; the UPDATE or INSERT of toggle_habito raises
\* while another connection holds the write lock
callback_habito(chat_id, data) ==
  LET nombre_id == data[2]
  IN  /\ deploy = "main"
      /\ BotAtiende(bot.fase)
      /\ IF leak
         THEN /\ UNCHANGED habitos
              /\ last' = [NoCall EXCEPT !.op = "callback_habito", !.user = chat_id,
                                        !.hid = nombre_id, !.fecha = hoy,
                                        !.raised = "OperationalError"]
              /\ run' = NoRun
         ELSE /\ Cabe(habitos, ~ \E r \in habitos :
                        r.chat_id = chat_id /\ r.fecha = hoy /\ r.habito = nombre_id)
              /\ habitos' = toggle_habito(habitos, chat_id, hoy, nombre_id)
              /\ last' = [NoCall EXCEPT !.op = "callback_habito", !.user = chat_id,
                                        !.hid = nombre_id, !.fecha = hoy]
              /\ run' = NextRun(chat_id, nombre_id, hoy,
                                Estado(habitos, chat_id, hoy, nombre_id),
                                \E r \in habitos : r.chat_id = chat_id /\ r.fecha = hoy
                                                   /\ r.habito = nombre_id)
      /\ UNCHANGED << deploy, otrosVars, hoy, users, libros, libros_seq, storeVars, calls >>

\* GET /api/habitos/{fecha}: the dict of the first user for the string
\* fecha, which is not parsed
get_habitos(fecha) ==
  /\ deploy = "main"
  /\ last' =
       IF get_all_users(users) = <<>>
       THEN [NoCall EXCEPT !.op = "get_habitos", !.fecha = fecha,
                           !.raised = "sin_usuarios"]
       ELSE LET chat_id == get_all_users(users)[1].chat_id
                estados == get_habitos_hoy(habitos, chat_id, fecha)
            IN  [NoCall EXCEPT !.op = "get_habitos", !.user = chat_id, !.fecha = fecha,
                               !.arg = [fecha |-> fecha, habitos |-> estados,
                                        completados |-> Cardinality({h \in DOMAIN estados : estados[h]}),
                                        total |-> 5]]
  /\ run' = NoRun
  /\ UNCHANGED << deploy, otrosVars, mainVars, storeVars, calls >>

\* POST /api/habitos/{fecha}/{habito}; the two checks read, the toggle
\* raises while another connection holds the write lock
toggle_habito_api(fecha, habito) ==
  /\ deploy = "main"
  /\ IF habito \notin {"leer", "meditar", "ducha", "ejercicio", "proyecto"}
     THEN /\ last' = [NoCall EXCEPT !.op = "toggle_habito_api", !.hid = habito,
                                    !.fecha = fecha, !.raised = "HTTP400"]
          /\ run' = NoRun
          /\ UNCHANGED habitos
     ELSE IF get_all_users(users) = <<>>
     THEN /\ last' = [NoCall EXCEPT !.op = "toggle_habito_api", !.hid = habito,
                                    !.fecha = fecha, !.raised = "HTTP404"]
          /\ run' = NoRun
          /\ UNCHANGED habitos
     ELSE IF leak
     THEN /\ last' = [NoCall EXCEPT !.op = "toggle_habito_api",
                                    !.user = get_all_users(users)[1].chat_id,
                                    !.hid = habito, !.fecha = fecha,
                                    !.raised = "OperationalError"]
          /\ run' = NoRun
          /\ UNCHANGED habitos
     ELSE LET chat_id == get_all_users(users)[1].chat_id
          IN  /\ Cabe(habitos, ~ \E r \in habitos :
                        r.chat_id = chat_id /\ r.fecha = fecha /\ r.habito = habito)
              /\ habitos' = toggle_habito(habitos, chat_id, fecha, habito)
              /\ last' = [NoCall EXCEPT !.op = "toggle_habito_api", !.user = chat_id,
                                        !.hid = habito, !.fecha = fecha]
              /\ run' = NextRun(chat_id, habito, fecha,
                                Estado(habitos, chat_id, fecha, habito),
                                \E r \in habitos : r.chat_id = chat_id /\ r.fecha = fecha
                                                   /\ r.habito = habito)
  /\ UNCHANGED << deploy, otrosVars, hoy, users, libros, libros_seq, storeVars, calls >>

\* ------------------------------- main.py: exercises, books and trips
\* an INSERT that binds data.get(c) for the columns campos, of which no_nula
\* is NOT NULL.  A value that cannot be bound raises ProgrammingError before
\* the statement runs, whoever holds the lock; then OperationalError while
\* another connection holds the write lock, and IntegrityError for NULL.
insert_not_null(locked, data, campos, no_nula) ==
  IF \E c \in campos \cap DOMAIN data : data[c] = Lista THEN "ProgrammingError"
  ELSE IF locked THEN "OperationalError"
  ELSE IF data[no_nula] = Nulo THEN "IntegrityError"
  ELSE "none"

\* the bodies posted to the three collections: campo with a value, null,
\* absent, an array; an array under "notas", which every INSERT binds, and
\* under "zz", which none reads
Cuerpos(campo) ==
  { [c \in {campo, "tipo"} |-> IF c = campo THEN "a" ELSE "b"],
    [c \in {campo, "tipo"} |-> IF c = campo THEN Nulo ELSE "b"],
    [c \in {"tipo"} |-> "b"],
    [c \in {campo, "tipo"} |-> IF c = campo THEN Lista ELSE "b"] }
  \cup { [c \in {campo, "tipo", k} |-> IF c = campo THEN "a" ELSE IF c = "tipo" THEN "b"
                                        ELSE Lista] : k \in {"notas", "zz"} }

\* POST /api/ejercicios: 400 unless the keys nombre and tipo are in the body
crear_ejercicio(data) ==
  LET falta  == \E c \in {"nombre", "tipo"} : c \notin DOMAIN data
      raised == IF falta THEN "HTTP400"
                ELSE insert_not_null(leak, data, {"nombre", "tipo", "series", "repeticiones",
                                                  "peso", "notas"}, "nombre")
  IN  /\ deploy = "main"
      /\ leak' = (leak \/ Leaks(raised))
      /\ last' = [NoCall EXCEPT !.op = "crear_ejercicio", !.arg = data,
                                !.raised = raised]
      /\ run' = NoRun
      /\ UNCHANGED << deploy, otrosVars, mainVars, users_cfg, user_config,
                      habitos_config, hc_seq, habitos_diarios,
                      recordatorios_config, rc_seq, rutinas_config, items, items_seq, calls >>

\* POST /api/viajes: 400 unless the key destino is in the body
crear_viaje(data) ==
  LET raised == IF "destino" \notin DOMAIN data THEN "HTTP400"
                ELSE insert_not_null(leak, data, {"destino", "fecha_inicio", "fecha_fin",
                                                  "presupuesto", "gastado", "notas",
                                                  "estado"}, "destino")
  IN  /\ deploy = "main"
      /\ leak' = (leak \/ Leaks(raised))
      /\ last' = [NoCall EXCEPT !.op = "crear_viaje", !.arg = data,
                                !.raised = raised]
      /\ run' = NoRun
      /\ UNCHANGED << deploy, otrosVars, mainVars, users_cfg, user_config,
                      habitos_config, hc_seq, habitos_diarios,
                      recordatorios_config, rc_seq, rutinas_config, items, items_seq, calls >>

\* POST /api/libros: 400 unless the key titulo is in the body; the new row
\* gets the id after the largest one the table ever held (AUTOINCREMENT)
crear_libro(data) ==
  LET raised == IF "titulo" \notin DOMAIN data THEN "HTTP400"
                ELSE insert_not_null(leak, data, {"titulo", "autor", "estado", "progreso",
                                                  "paginas_total", "notas",
                                                  "fecha_inicio"}, "titulo")
  IN  /\ deploy = "main"
      /\ raised = "none" => libros_seq < MaxItems
      /\ libros' = IF raised = "none"
                   THEN libros \cup {[id |-> libros_seq + 1, titulo |-> data.titulo]}
                   ELSE libros
      /\ libros_seq' = IF raised = "none" THEN libros_seq + 1 ELSE libros_seq
      /\ leak' = (leak \/ Leaks(raised))
      /\ last' = [NoCall EXCEPT !.op = "crear_libro", !.arg = data,
                                !.raised = raised]
      /\ run' = NoRun
      /\ UNCHANGED << deploy, otrosVars, users, habitos, hoy, users_cfg, user_config,
                      habitos_config, hc_seq, habitos_diarios,
                      recordatorios_config, rc_seq, rutinas_config, items, items_seq, calls >>

\* PUT /api/libros/{libro_id}: the body is not checked.  UPDATE libros SET
\* the permitted fields of the body WHERE id = libro_id; no statement runs
\* when the body has none of them.  A value that cannot be bound raises
\* ProgrammingError before the statement runs; the NOT NULL of titulo is
\* checked on the rows the UPDATE finds.
actualizar_libro(libro_id, data) ==
  LET campos_permitidos == {"titulo", "autor", "estado", "progreso",
                            "paginas_total", "notas", "fecha_inicio", "fecha_fin"}
      updates == campos_permitidos \cap DOMAIN data
      filas   == {r \in libros : r.id = libro_id}
      raised  == IF updates = {} THEN "none"
                 ELSE IF \E c \in updates : data[c] = Lista THEN "ProgrammingError"
                 ELSE IF leak THEN "OperationalError"
                 ELSE IF "titulo" \in updates /\ data.titulo = Nulo /\ filas # {}
                 THEN "IntegrityError"
                 ELSE "none"
  IN  /\ deploy = "main"
      /\ libros' = IF raised = "none" /\ "titulo" \in updates
                   THEN (libros \ filas) \cup {[r EXCEPT !.titulo = data.titulo] : r \in filas}
                   ELSE libros
      /\ leak' = (leak \/ Leaks(raised))
      /\ last' = [NoCall EXCEPT !.op = "actualizar_libro", !.hid = libro_id,
                                !.arg = data, !.raised = raised]
      /\ run' = NoRun
      /\ UNCHANGED << deploy, otrosVars, users, habitos, hoy, libros_seq, users_cfg, user_config,
                      habitos_config, hc_seq, habitos_diarios,
                      recordatorios_config, rc_seq, rutinas_config, items, items_seq, calls >>

\* DELETE /api/libros/{libro_id}: DELETE FROM libros WHERE id = libro_id;
\* sqlite_sequence keeps its value, so the id is not handed out again
borrar_libro(libro_id) ==
  LET raised == IF leak THEN "OperationalError" ELSE "none"
  IN  /\ deploy = "main"
      /\ libros' = IF raised = "none" THEN {r \in libros : r.id # libro_id} ELSE libros
      /\ last' = [NoCall EXCEPT !.op = "borrar_libro", !.hid = libro_id,
                                !.raised = raised]
      /\ run' = NoRun
      /\ UNCHANGED << deploy, otrosVars, users, habitos, hoy, libros_seq, storeVars, calls >>

\* the Madrid date moves on to the next day
Medianoche ==
  /\ deploy = "main"
  /\ Manana(hoy) # hoy
  /\ hoy' = Manana(hoy)
  /\ last' = NoCall
  /\ run' = NoRun
  /\ UNCHANGED << deploy, otrosVars, users, habitos, libros, libros_seq, storeVars, calls >>

\* --------------------------------------------- main.py: /resumen and reminders
\* the dict nombres of cmd_resumen and enviar_recordatorio, in insertion order
nombres == <<"leer", "meditar", "ducha", "ejercicio", "proyecto">>

\* total = len(nombres)
total == Len(nombres)

\* sum(1 for v in estados.values() if v)
completados(estados) == Cardinality({h \in DOMAIN estados : estados[h]})

\* the lines of a summary: the icon of estados.get(nombre, False) per entry of
\* nombres (TRUE is the check mark, FALSE the cross)
lineas(estados) ==
  [i \in DOMAIN nombres |->
     [nombre |-> nombres[i],
      icono  |-> IF nombres[i] \in DOMAIN estados THEN estados[nombres[i]] ELSE FALSE]]

\* the if/elif chain of cmd_resumen with "completados > 3" for ">= 3"
cierre_resumen_mayor(n, de) ==
  IF n = de THEN "dia_perfecto"
  ELSE IF n > 3 THEN "buen_trabajo"
  ELSE IF n > 0 THEN "has_empezado"
  ELSE "estas_a_tiempo"

\* the closing line cmd_resumen appends: the if/elif chain on completados
cierre_resumen(n, de) ==
  IF n = de THEN "dia_perfecto"
  ELSE IF n >= 3 THEN "buen_trabajo"
  ELSE IF n > 0 THEN "has_empezado"
  ELSE "estas_a_tiempo"

\* int((completados / total) * 100) if total > 0 else 0, in the arithmetic of
\* float: n / de is the double nearest to the quotient, the product is the
\* double nearest to 100 times that double, and int() drops the fraction.
\* A double is its 53 binary digits, the first a 1, with the exponent of the
\* first one; ties go to the even neighbour.  (For de < 2^23, 100 n / de < 2^31.)
porcentaje(n, de) ==
  LET RECURSIVE Val(_, _), Div(_, _)
      \* the value of the first k binary digits of b
      Val(b, k) == IF k = 0 THEN 0 ELSE 2 * Val(b, k - 1) + b[k]
      \* the binary digits of w, ancho of them, the highest first
      Bits(w, ancho) == [j \in 1..ancho |-> (w \div (2 ^ (ancho - j))) % 2]
      \* the next 8 k binary digits of r / de behind the point, and the rest
      Div(r, k) ==
        IF k = 0 THEN [b |-> <<>>, r |-> r]
        ELSE LET f == Div((r * 256) % de, k - 1)
             IN  [b |-> Bits((r * 256) \div de, 8) \o f.b, r |-> f.r]
      \* the double nearest to the number with the binary digits b, where b[u]
      \* is the unit digit, followed by digits that are all 0 unless resto:
      \* its 53 digits m and the exponent e of the first of them
      Redondea(b, u, resto) ==
        LET j     == CHOOSE i \in DOMAIN b : b[i] = 1 /\ \A h \in 1..(i - 1) : b[h] = 0
            m     == SubSeq(b, j, j + 52)
            sube  == /\ b[j + 53] = 1
                     /\ \/ resto
                        \/ m[53] = 1
                        \/ \E i \in (j + 54)..Len(b) : b[i] = 1
            ceros == {i \in 1..53 : m[i] = 0}
            z     == CHOOSE i \in ceros : \A h \in ceros : h <= i
        IN  IF ~ sube THEN [m |-> m, e |-> u - j]
            ELSE IF ceros = {}
            THEN [m |-> [i \in 1..53 |-> IF i = 1 THEN 1 ELSE 0], e |-> u - j + 1]
            ELSE [m |-> [i \in 1..53 |-> IF i < z THEN m[i] ELSE IF i = z THEN 1 ELSE 0],
                  e |-> u - j]
      \* n / de
      d  == Div(n % de, 10)
      q  == Redondea(Bits(n \div de, 31) \o d.b, 31, d.r # 0)
      \* q * 100, the 53 digits of q taken in three groups
      t3 == Val(SubSeq(q.m, 36, 53), 18) * 100
      t2 == Val(SubSeq(q.m, 18, 35), 18) * 100 + t3 \div 262144
      t1 == Val(q.m, 17) * 100 + t2 \div 262144
      p  == Redondea(Bits(t1, 24) \o Bits(t2 % 262144, 18) \o Bits(t3 % 262144, 18),
                     q.e + 8, FALSE)
  IN  IF de > 0 /\ n > 0
      THEN (IF p.e < 0 THEN 0 ELSE Val(p.m, p.e + 1))
      ELSE 0

\* the progress bar: "█" * (porcentaje // 10) and "░" * (10 - porcentaje // 10),
\* as the lengths of the two strings; a string times a negative number is ""
barra_llena(p) == p \div 10
barra_vacia(p) == IF 10 - (p \div 10) > 0 THEN 10 - (p \div 10) ELSE 0

\* the text cmd_resumen replies with
texto_resumen(estados, fecha) ==
  [titulo |-> "RESUMEN DE HOY", fecha |-> fecha, lineas |-> lineas(estados),
   porcentaje |-> porcentaje(completados(estados), total),
   barra_llena |-> barra_llena(porcentaje(completados(estados), total)),
   barra_vacia |-> barra_vacia(porcentaje(completados(estados), total)),
   completados |-> completados(estados), total |-> total,
   cierre |-> cierre_resumen(completados(estados), total)]

\* /resumen
cmd_resumen(chat_id) ==
  /\ deploy = "main"
  /\ BotAtiende(bot.fase)
  /\ last' = [NoCall EXCEPT !.op = "cmd_resumen", !.user = chat_id, !.fecha = hoy,
                            !.arg = texto_resumen(get_habitos_hoy(habitos, chat_id, hoy),
                                                  hoy)]
  /\ run' = NoRun
  /\ UNCHANGED << deploy, otrosVars, mainVars, storeVars, calls >>

\* the four jobs configurar_recordatorios adds to the scheduler
Trabajos ==
  { [id |-> "recordatorio_manana",   hour |-> 7,  minute |-> 0,  tipo |-> "manana"],
    [id |-> "recordatorio_mediodia", hour |-> 14, minute |-> 0,  tipo |-> "habitos_mediodia"],
    [id |-> "recordatorio_noche",    hour |-> 22, minute |-> 0,  tipo |-> "noche"],
    [id |-> "recordatorio_resumen",  hour |-> 22, minute |-> 30, tipo |-> "resumen_noche"] }

\* the Madrid wall-clock minutes <<hour, minute>> the model observes, in the
\* order of the day; the scheduler sleeps through the minutes in between
Minutos ==
  << <<6, 59>>, <<7, 0>>, <<7, 1>>, <<14, 0>>, <<21, 59>>, <<22, 0>>,
     <<22, 30>>, <<22, 31>> >>

\* a job that is due during the whole hour of its trigger
Vence_hora(job, minuto) == job.hour = minuto[1]

\* CronTrigger(hour, minute): the job is due in the minute with these fields
Vence(job, minuto) == job.hour = minuto[1] /\ job.minute = minuto[2]

\* the text enviar_recordatorio sends to chat_id for a reminder of kind tipo
texto_recordatorio(t, tipo, chat_id, fecha) ==
  IF tipo = "resumen_noche"
  THEN LET estados == get_habitos_hoy(t, chat_id, fecha)
       IN  [titulo |-> "RESUMEN DEL DIA", lineas |-> lineas(estados),
            completados |-> completados(estados), total |-> total,
            cierre |-> "buenas_noches"]
  ELSE [titulo |-> tipo]

\* the loop body up to its await for the user at position i: the text is
\* rendered from the table as it is now and send_message is called
llamar(scan, i, t, fecha, listo) ==
  [scan EXCEPT !.i = i,
               !.texto = texto_recordatorio(t, scan.tipo, scan.usuarios[i].chat_id, fecha),
               !.fecha = fecha,
               !.listo = listo]

\* the scan after the send to the user at position i when the try is around
\* the whole loop: a send that raises ends the scan
siguiente_sin_try(scan, ok, t, fecha, listo) ==
  IF ok /\ scan.i < Len(scan.usuarios)
  THEN llamar(scan, scan.i + 1, t, fecha, listo)
  ELSE NoScan

\* the scan after the send to the user at position i returned or raised
\* ("except Exception" inside the for loop): the loop goes on to the call for
\* the next user, or ends
siguiente(scan, ok, t, fecha, listo) ==
  IF scan.i < Len(scan.usuarios)
  THEN llamar(scan, scan.i + 1, t, fecha, listo)
  ELSE NoScan

\* a due job starts: usuarios = db.get_all_users(), read once, and the loop
\* runs to the send_message of the first user
empezar(us, t, tipo, fecha, listo) ==
  IF get_all_users(us) = <<>> THEN NoScan
  ELSE llamar([NoScan EXCEPT !.tipo = tipo, !.usuarios = get_all_users(us)],
              1, t, fecha, listo)

\* the clock reaches the next observed minute (the next day after the last
\* one); the scheduler starts enviar_recordatorio of the job due in it.  The
\* scan of a job is over well before the next observed minute.
Tick ==
  LET k == CHOOSE i \in DOMAIN Minutos : Minutos[i] = bot.reloj
      m == IF k < Len(Minutos) THEN Minutos[k + 1] ELSE Minutos[1]
      due == {j \in Trabajos : Hecho(bot.fase, "configurar_recordatorios") /\ Vence(j, m)}
  IN  /\ deploy = "main"
      /\ SchedulerActivo(bot.fase)
      /\ bot.scan = NoScan
      /\ k = Len(Minutos) => Manana(hoy) # hoy
      /\ hoy' = IF k = Len(Minutos) THEN Manana(hoy) ELSE hoy
      /\ bot' = [bot EXCEPT !.reloj = m,
                            !.scan = IF due = {} THEN NoScan
                                     ELSE empezar(users, habitos,
                                                  (CHOOSE j \in due : TRUE).tipo,
                                                  hoy', BotEnvia(bot.fase))]
      /\ last' = [NoCall EXCEPT !.op = "tick"]
      /\ run' = NoRun
      /\ UNCHANGED << deploy, sessions, users, habitos, libros, libros_seq, storeVars, calls >>

\* the send_message the coroutine is suspended in returns, or raises for a
\* chat that cannot be reached or a bot that could not send; the loop then
\* runs to the send_message of the next user, whose text is rendered now
Enviar ==
  LET chat_id == bot.scan.usuarios[bot.scan.i].chat_id
      ok      == chat_id \notin bot.caidos /\ bot.scan.listo
  IN  /\ deploy = "main"
      /\ bot.scan # NoScan
      /\ bot' = [bot EXCEPT
                   !.envios = Append(@, [fecha |-> bot.scan.fecha, reloj |-> bot.reloj,
                                         tipo |-> bot.scan.tipo, chat_id |-> chat_id,
                                         ok |-> ok]),
                   !.scan = siguiente(bot.scan, ok, habitos, hoy, BotEnvia(bot.fase))]
      /\ last' = [NoCall EXCEPT !.op = "enviar_recordatorio", !.user = chat_id,
                                !.fecha = bot.scan.fecha,
                                !.arg = bot.scan.texto]
      /\ run' = NoRun
      /\ UNCHANGED << deploy, sessions, mainVars, storeVars, calls >>

\* ------------------------------------------------------- main.py: lifespan
\* the next statement of lifespan other than scheduler.shutdown; the yield
\* is left when the server is told to stop
Paso ==
  /\ deploy = "main"
  /\ bot.fase < Len(lifespan)
  /\ lifespan[bot.fase + 1] # "scheduler.shutdown"
  /\ bot' = [bot EXCEPT !.fase = bot.fase + 1]
  /\ last' = [NoCall EXCEPT !.op = "lifespan", !.arg = lifespan[bot.fase + 1]]
  /\ run' = NoRun
  /\ UNCHANGED << deploy, sessions, mainVars, storeVars, calls >>

\* scheduler.shutdown(): the executor of AsyncIOScheduler cancels the tasks
\* of the jobs that are running; the task of enviar_recordatorio is waiting
\* in the send_message of the user at position i, which was delivered or not
SchedulerShutdown ==
  /\ deploy = "main"
  /\ bot.fase < Len(lifespan)
  /\ lifespan[bot.fase + 1] = "scheduler.shutdown"
  /\ \E entregado \in BOOLEAN :
       /\ entregado => /\ bot.scan # NoScan
                        /\ bot.scan.listo
                        /\ bot.scan.usuarios[bot.scan.i].chat_id \notin bot.caidos
       /\ bot' = IF bot.scan = NoScan
                 THEN [bot EXCEPT !.fase = bot.fase + 1]
                 ELSE [bot EXCEPT
                         !.fase = bot.fase + 1,
                         !.envios = Append(@, [fecha |-> bot.scan.fecha, reloj |-> bot.reloj,
                                               tipo |-> bot.scan.tipo,
                                               chat_id |-> bot.scan.usuarios[bot.scan.i].chat_id,
                                               ok |-> entregado]),
                         !.scan = NoScan]
  /\ last' = [NoCall EXCEPT !.op = "lifespan", !.arg = "scheduler.shutdown"]
  /\ run' = NoRun
  /\ UNCHANGED << deploy, sessions, mainVars, storeVars, calls >>

\* ------------------------------------------------- main.py: the weekly rollup
\* a date string is a sequence of characters; a character outside ASCII is
\* written as its code point
Digitos == <<"0", "1", "2", "3", "4", "5", "6", "7", "8", "9">>
\* [0-9] of a regular expression
EsDigito(c) == \E i \in DOMAIN Digitos : Digitos[i] = c
\* chr(): the character of a code point, for the digits of ASCII and for
\* the characters outside ASCII
chr(n) ==
  LET Hex == Digitos \o <<"A", "B", "C", "D", "E", "F">>
      h(k) == Hex[((n \div k) % 16) + 1]
  IN  IF n \in 48..57 THEN Digitos[n - 47]
      ELSE "U+" \o (IF n >= 1048576 THEN h(1048576) ELSE "")
                \o (IF n >= 65536 THEN h(65536) ELSE "")
                \o h(4096) \o h(256) \o h(16) \o h(1)

\* the characters of the Unicode category Nd (Unicode 14.0.0, the database
\* of Python 3.11) by their value: each script has its ten digits in a row,
\* from the code point of its zero
Decimales ==
  [i \in 0..9 |-> {chr(z + i) : z \in {
    48, 1632, 1776, 1984, 2406, 2534, 2662, 2790, 2918, 3046, 3174, 3302,
    3430, 3558, 3664, 3792, 3872, 4160, 4240, 6112, 6160, 6470, 6608, 6784,
    6800, 6992, 7088, 7232, 7248, 42528, 43216, 43264, 43472, 43504, 43600,
    44016, 65296, 66720, 68912, 69734, 69872, 69942, 70096, 70384, 70736,
    70864, 71248, 71360, 71472, 71904, 72016, 72784, 73040, 73120, 92768,
    92864, 93008, 120782, 120792, 120802, 120812, 120822, 123200, 123632,
    125264, 130032 }}]

\* \d of a regular expression over str: any Unicode decimal digit
EsDecimal(c) == \E i \in DOMAIN Decimales : c \in Decimales[i]
\* int() of a decimal digit
ValorDigito(c) == CHOOSE i \in DOMAIN Decimales : c \in Decimales[i]

\* int() of a sequence of digits
RECURSIVE Numero(_)
Numero(cs) ==
  IF cs = <<>> THEN 0
  ELSE Numero(SubSeq(cs, 1, Len(cs) - 1)) * 10 + ValorDigito(cs[Len(cs)])

\* str() of a natural number, and the same zero-padded to two characters
RECURSIVE Cifras(_)
Cifras(n) == IF n < 10 THEN Digitos[n + 1] ELSE Cifras(n \div 10) \o Digitos[(n % 10) + 1]
DosCifras(n) == IF n < 10 THEN "0" \o Cifras(n) ELSE Cifras(n)

\* the calendar of datetime: leap years, days in a month, days before a
\* month and before a year, the ordinal of a date <<year, month, day>> (day 1
\* is 0001-01-01) and the date of an ordinal
DiasDelMes(y, m) ==
  IF m = 2 THEN (IF y % 4 = 0 /\ (y % 100 # 0 \/ y % 400 = 0) THEN 29 ELSE 28)
  ELSE IF m \in {4, 6, 9, 11} THEN 30 ELSE 31
RECURSIVE DiasAntesDelMes(_, _)
DiasAntesDelMes(y, m) ==
  IF m = 1 THEN 0 ELSE DiasAntesDelMes(y, m - 1) + DiasDelMes(y, m - 1)
DiasAntesDelAno(y) ==
  LET z == y - 1 IN z * 365 + (z \div 4) - (z \div 100) + (z \div 400)
toordinal(f) == DiasAntesDelAno(f[1]) + DiasAntesDelMes(f[1], f[2]) + f[3]
fromordinal(ord) ==
  LET n    == ord - 1
      n400 == n \div 146097
      r400 == n % 146097
      n100 == r400 \div 36524
      r100 == r400 % 36524
      n4   == r100 \div 1461
      r4   == r100 % 1461
      n1   == r4 \div 365
      r1   == r4 % 365
      year == n400 * 400 + 1 + n100 * 100 + n4 * 4 + n1
  IN  IF n1 = 4 \/ n100 = 4 THEN <<year - 1, 12, 31>>
      ELSE LET mes == CHOOSE m \in 1..12 :
                        /\ DiasAntesDelMes(year, m) <= r1
                        /\ r1 < DiasAntesDelMes(year, m) + DiasDelMes(year, m)
           IN  <<year, mes, r1 - DiasAntesDelMes(year, mes) + 1>>

\* the path parameter fecha as the string the handlers hand to the store
RECURSIVE Cadena(_)
Cadena(cs) == IF cs = <<>> THEN "" ELSE cs[1] \o Cadena(Tail(cs))

\* the value of a failed strptime
ValueError == <<>>

\* datetime.strptime(fecha, "%Y-%m-%d") matches
\* (\d\d\d\d)-(1[0-2]|0[1-9]|[1-9])-(3[0-1]|[1-2]\d|0[1-9]|[1-9]| [1-9]) and
\* nothing else: a year of four decimal digits of any script, a month 1..12
\* of one or two ASCII digits, a day of one or two characters of which only
\* the one after a leading 1 or 2 may be a digit of another script; then the
\* date must exist
strptime(cs) ==
  LET g == {i \in DOMAIN cs : cs[i] = "-"}
  IN  IF Cardinality(g) # 2 THEN ValueError
      ELSE LET g1 == CHOOSE i \in g : \A j \in g : i <= j
               g2 == CHOOSE i \in g : \A j \in g : j <= i
               Y  == SubSeq(cs, 1, g1 - 1)
               M  == SubSeq(cs, g1 + 1, g2 - 1)
               D0 == SubSeq(cs, g2 + 1, Len(cs))
               D  == IF Len(D0) = 2 /\ D0[1] = " " THEN SubSeq(D0, 2, 2) ELSE D0
               digitos(x) == \A i \in DOMAIN x : EsDigito(x[i])
               dia == \/ Len(D0) = 2 /\ D0[1] = "3" /\ D0[2] \in {"0", "1"}
                      \/ Len(D0) = 2 /\ D0[1] \in {"1", "2"} /\ EsDecimal(D0[2])
                      \/ Len(D0) = 2 /\ D0[1] \in {"0", " "} /\ EsDigito(D0[2]) /\ D0[2] # "0"
                      \/ Len(D0) = 1 /\ EsDigito(D0[1]) /\ D0[1] # "0"
           IN  IF /\ Len(Y) = 4 /\ \A i \in DOMAIN Y : EsDecimal(Y[i])
                  /\ Len(M) \in {1, 2} /\ digitos(M) /\ Numero(M) \in 1..12
                  /\ dia
                  /\ Numero(Y) >= 1
                  /\ Numero(D) <= DiasDelMes(Numero(Y), Numero(M))
               THEN <<Numero(Y), Numero(M), Numero(D)>>
               ELSE ValueError

\* strftime("%Y-%m-%d")
strftime(f) == Cifras(f[1]) \o "-" \o DosCifras(f[2]) \o "-" \o DosCifras(f[3])

\* the list semana: for i in range(6, -1, -1), the day fecha_base - i days
semana(t, chat_id, fecha_base) ==
  [k \in 1..7 |->
     LET dia     == strftime(fromordinal(toordinal(fecha_base) - (7 - k)))
         estados == get_habitos_hoy(t, chat_id, dia)
     IN  [fecha |-> dia, habitos |-> estados, completados |-> completados(estados),
          total |-> 5]]

\* GET /api/habitos/semana/{fecha}: no user gives an empty list, a string
\* strptime rejects gives 400, a date whose sixth day before does not exist
\* makes the subtraction raise, any other date gives the list of seven days
get_habitos_semana(fecha) ==
  /\ deploy = "main"
  /\ last' =
       IF get_all_users(users) = <<>>
       THEN [NoCall EXCEPT !.op = "get_habitos_semana", !.fecha = fecha,
                           !.raised = "sin_usuarios"]
       ELSE IF strptime(fecha) = ValueError
       THEN [NoCall EXCEPT !.op = "get_habitos_semana", !.fecha = fecha,
                           !.raised = "HTTP400"]
       ELSE IF toordinal(strptime(fecha)) - 6 < 1
       THEN [NoCall EXCEPT !.op = "get_habitos_semana", !.fecha = fecha,
                           !.raised = "OverflowError"]
       ELSE [NoCall EXCEPT !.op = "get_habitos_semana", !.fecha = fecha,
                           !.user = get_all_users(users)[1].chat_id,
                           !.arg = semana(habitos, get_all_users(users)[1].chat_id,
                                          strptime(fecha))]
  /\ run' = NoRun
  /\ UNCHANGED << deploy, otrosVars, mainVars, storeVars, calls >>

\* ================================================================== config.py

\* email.lower().strip() on the addresses the model registers
lower_strip(email) == IF email = " A@X.com " THEN "a@x.com" ELSE email

Ids(t) == {r.id : r \in t}

\* registrar_usuario: INSERT INTO users; sqlite3.IntegrityError (UNIQUE email)
\* is turned into {"ok": False}; the connection is closed in the finally
registrar_usuario(us, uc, locked, email) ==
  IF locked
  THEN [users |-> us, config |-> uc, raised |-> "OperationalError"]
  ELSE IF \E r \in us : r.email = lower_strip(email)
  THEN [users |-> us, config |-> uc, raised |-> "ok_false"]
  ELSE LET user_id == Cardinality(us) + 1
       IN  [users |-> us \cup {[id |-> user_id, email |-> lower_strip(email),
                                 telegram_chat_id |-> None]},
            config |-> uc \cup {[user_id |-> user_id, zona_horaria |-> "Europe/Madrid",
                                  idioma |-> "es"]},
            raised |-> "none"]

\* the INSERT loop of guardar_habitos_config from position i on, inside the
\* open transaction.  For the item h: h["nombre"] raises KeyError; a nombre
\* or emoji that cannot be bound raises ProgrammingError; a NULL nombre
\* (NOT NULL) and a user_id that is no users.id (FOREIGN KEY) raise
\* IntegrityError.  hc and seq are the rows and the sqlite_sequence as the
\* transaction has them when the loop ends or a statement raises.
RECURSIVE insertar_habitos(_, _, _, _, _, _)
insertar_habitos(hc, seq, us, user_id, lista, i) ==
  IF i > Len(lista) THEN [hc |-> hc, seq |-> seq, raised |-> "none"]
  ELSE LET h     == lista[i]
           emoji == IF "emoji" \in DOMAIN h THEN h.emoji ELSE "check"
       IN  IF "nombre" \notin DOMAIN h
           THEN [hc |-> hc, seq |-> seq, raised |-> "KeyError"]
           ELSE IF Lista \in {h.nombre, emoji}
           THEN [hc |-> hc, seq |-> seq, raised |-> "ProgrammingError"]
           ELSE IF h.nombre = Nulo \/ user_id \notin Ids(us)
           THEN [hc |-> hc, seq |-> seq, raised |-> "IntegrityError"]
           ELSE insertar_habitos(
                  hc \cup {[id |-> seq + 1, user_id |-> user_id, nombre |-> h.nombre,
                            emoji |-> emoji, orden |-> i - 1, activo |-> 1]},
                  seq + 1, us, user_id, lista, i + 1)

\* guardar_habitos_config without its DELETE statement
guardar_habitos_config_tx_sin_delete(hc, seq, hd, us, locked, user_id, lista) ==
  IF locked
  THEN [hc |-> hc, seq |-> seq, raised |-> "OperationalError"]
  ELSE insertar_habitos(hc, seq, us, user_id, lista, 1)

\* the statements of guardar_habitos_config up to, not including, the commit:
\* DELETE (refused by the FOREIGN KEY of habitos_diarios when a completion row
\* references a deleted definition), then the INSERT loop
guardar_habitos_config_tx(hc, seq, hd, us, locked, user_id, lista) ==
  LET viejas == {r \in hc : r.user_id = user_id}
  IN  IF locked
      THEN [hc |-> hc, seq |-> seq, raised |-> "OperationalError"]
      ELSE IF \E d \in hd : d.habito_config_id \in Ids(viejas)
      THEN [hc |-> hc, seq |-> seq, raised |-> "IntegrityError"]
      ELSE insertar_habitos(hc \ viejas, seq, us, user_id, lista, 1)

\* guardar_habitos_config on a connection opened with isolation_level = None:
\* every statement is committed as it runs
guardar_habitos_config_autocommit(hc, seq, hd, us, locked, user_id, lista) ==
  guardar_habitos_config_tx(hc, seq, hd, us, locked, user_id, lista)

\* guardar_habitos_config, by what the database holds for every connection
\* once the method is left.  The connection is opened with the default
\* isolation_level, so the DELETE opens a transaction and the statements
\* write its private rows (tx); conn.commit(), the statement after the loop,
\* is the only one that publishes them, and an exception leaves the method
\* before it.  The transaction of the connection left open is rolled back
\* when the connection is released (Gc).
guardar_habitos_config(hc, seq, hd, us, locked, user_id, lista) ==
  LET tx     == guardar_habitos_config_tx(hc, seq, hd, us, locked, user_id, lista)
      commit == tx.raised = "none"
  IN  [hc |-> IF commit THEN tx.hc ELSE hc, seq |-> IF commit THEN tx.seq ELSE seq,
       raised |-> tx.raised]

\* get_habitos_config: the active definitions of the user, ORDER BY orden
get_habitos_config(hc, user_id) ==
  OrderBy({<<r.orden, r>> : r \in {x \in hc : x.user_id = user_id /\ x.activo = 1}})

\* the INSERT loop of guardar_recordatorios from position i on, inside the
\* open transaction.  For the item r: r["tipo"], r["hora"] raise KeyError; a
\* tipo or hora that cannot be bound raises ProgrammingError; a NULL tipo or
\* hora (NOT NULL) and a user_id that is no users.id (FOREIGN KEY) raise
\* IntegrityError.
RECURSIVE insertar_recordatorios(_, _, _, _, _, _)
insertar_recordatorios(rc, seq, us, user_id, lista, i) ==
  IF i > Len(lista) THEN [rc |-> rc, seq |-> seq, raised |-> "none"]
  ELSE LET r == lista[i]
       IN  IF "tipo" \notin DOMAIN r \/ "hora" \notin DOMAIN r
           THEN [rc |-> rc, seq |-> seq, raised |-> "KeyError"]
           ELSE IF Lista \in {r.tipo, r.hora}
           THEN [rc |-> rc, seq |-> seq, raised |-> "ProgrammingError"]
           ELSE IF Nulo \in {r.tipo, r.hora} \/ user_id \notin Ids(us)
           THEN [rc |-> rc, seq |-> seq, raised |-> "IntegrityError"]
           ELSE insertar_recordatorios(
                  rc \cup {[id |-> seq + 1, user_id |-> user_id, tipo |-> r.tipo,
                            hora |-> r.hora, activo |-> 1]},
                  seq + 1, us, user_id, lista, i + 1)

\* the statements of guardar_recordatorios up to, not including, the commit:
\* DELETE the rows of the user, then the INSERT loop
guardar_recordatorios_tx(rc, seq, us, locked, user_id, lista) ==
  IF locked
  THEN [rc |-> rc, seq |-> seq, raised |-> "OperationalError"]
  ELSE insertar_recordatorios({r \in rc : r.user_id # user_id}, seq, us, user_id, lista, 1)

\* guardar_recordatorios, by what the database holds for every connection
\* once the method is left: conn.commit() after the loop publishes the rows
\* of the transaction, and an exception leaves the method before it
guardar_recordatorios(rc, seq, us, locked, user_id, lista) ==
  LET tx     == guardar_recordatorios_tx(rc, seq, us, locked, user_id, lista)
      commit == tx.raised = "none"
  IN  [rc |-> IF commit THEN tx.rc ELSE rc, seq |-> IF commit THEN tx.seq ELSE seq,
       raised |-> tx.raised]

\* get_recordatorios whose WHERE does not test activo
get_recordatorios_sin_activo(rc, user_id) ==
  OrderBy({<<r.id, r>> : r \in {x \in rc : x.user_id = user_id}})

\* get_recordatorios: the active rows of the user, in rowid order
get_recordatorios(rc, user_id) ==
  OrderBy({<<r.id, r>> : r \in {x \in rc : x.user_id = user_id /\ x.activo = 1}})

\* get_habitos_hoy whose WHERE does not test hc.activo
get_habitos_hoy_cfg_sin_activo(hc, hd, user_id, fecha) ==
  LET defs == {c \in hc : c.user_id = user_id}
      on(c) == {d \in hd : c.id = d.habito_config_id /\ d.fecha = fecha
                           /\ d.user_id = user_id}
      fila(c, completado) ==
        [id |-> c.id, nombre |-> c.nombre, emoji |-> c.emoji,
         completado |-> Bool(completado)]
      joined == {<<c.orden, fila(c, d.completado)>> : <<c, d>> \in
                   {p \in defs \X hd : p[2] \in on(p[1])}}
                \cup {<<c.orden, fila(c, 0)>> : c \in {x \in defs : on(x) = {}}}
  IN  OrderBy(joined)

\* get_habitos_hoy: habitos_config LEFT JOIN habitos_diarios, one output row
\* per matching completion row, one with COALESCE(NULL, 0) when none matches
get_habitos_hoy_cfg(hc, hd, user_id, fecha) ==
  LET defs == {c \in hc : c.user_id = user_id /\ c.activo = 1}
      on(c) == {d \in hd : c.id = d.habito_config_id /\ d.fecha = fecha
                           /\ d.user_id = user_id}
      fila(c, completado) ==
        [id |-> c.id, nombre |-> c.nombre, emoji |-> c.emoji,
         completado |-> Bool(completado)]
      joined == {<<c.orden, fila(c, d.completado)>> : <<c, d>> \in
                   {p \in defs \X hd : p[2] \in on(p[1])}}
                \cup {<<c.orden, fila(c, 0)>> : c \in {x \in defs : on(x) = {}}}
  IN  OrderBy(joined)

\* toggle_habito, first statement: SELECT completado ... fetchone()
select_completado(hd, user_id, habito_config_id, fecha) ==
  LET rows == {d \in hd : d.user_id = user_id /\ d.habito_config_id = habito_config_id
                          /\ d.fecha = fecha}
  IN  IF rows = {} THEN None ELSE (CHOOSE d \in rows : TRUE).completado

\* the INSERT into a habitos_diarios table declared without its UNIQUE constraint
insert_habitos_diarios_sin_unique(hd, hc, us, user_id, habito_config_id, fecha) ==
  IF user_id \notin Ids(us) \/ habito_config_id \notin Ids(hc)
  THEN [hd |-> hd, raised |-> "IntegrityError"]
  ELSE [hd |-> hd \cup {[copia |-> 1 + Cardinality({d \in hd :
                                     d.user_id = user_id /\ d.fecha = fecha
                                     /\ d.habito_config_id = habito_config_id}),
                         user_id |-> user_id, habito_config_id |-> habito_config_id,
                         fecha |-> fecha, completado |-> 1]},
        raised |-> "none"]

\* INSERT INTO habitos_diarios: FOREIGN KEYs on users and habitos_config,
\* UNIQUE(user_id, habito_config_id, fecha)
insert_habitos_diarios(hd, hc, us, user_id, habito_config_id, fecha) ==
  IF user_id \notin Ids(us) \/ habito_config_id \notin Ids(hc)
  THEN [hd |-> hd, raised |-> "IntegrityError"]
  ELSE IF \E d \in hd : d.user_id = user_id /\ d.habito_config_id = habito_config_id
                        /\ d.fecha = fecha
  THEN [hd |-> hd, raised |-> "IntegrityError"]
  ELSE [hd |-> hd \cup {[copia |-> 1, user_id |-> user_id,
                         habito_config_id |-> habito_config_id, fecha |-> fecha,
                         completado |-> 1]},
        raised |-> "none"]

\* toggle_habito whose UPDATE is SET completado = 1 whatever the SELECT read
toggle_write_set(hd, hc, us, locked, user_id, habito_config_id, fecha, row) ==
  IF locked
  THEN [hd |-> hd, raised |-> "OperationalError"]
  ELSE IF row # None
  THEN [hd |-> {IF d.user_id = user_id /\ d.habito_config_id = habito_config_id
                   /\ d.fecha = fecha
                THEN [d EXCEPT !.completado = 1] ELSE d : d \in hd},
        raised |-> "none"]
  ELSE insert_habitos_diarios(hd, hc, us, user_id, habito_config_id, fecha)

\* toggle_habito, second statement, given the row the SELECT read: the
\* rows of habitos_diarios as the commit that follows it publishes them
toggle_write(hd, hc, us, locked, user_id, habito_config_id, fecha, row) ==
  IF locked
  THEN [hd |-> hd, raised |-> "OperationalError"]
  ELSE IF row # None
  THEN LET nuevo == IF Bool(row) THEN 0 ELSE 1
       IN  [hd |-> {IF d.user_id = user_id /\ d.habito_config_id = habito_config_id
                       /\ d.fecha = fecha
                    THEN [d EXCEPT !.completado = nuevo] ELSE d : d \in hd},
            raised |-> "none"]
  ELSE insert_habitos_diarios(hd, hc, us, user_id, habito_config_id, fecha)

\* toggle_habito whose UPDATE is WHERE user_id = ? AND habito_config_id = ?:
\* the rows of the habit on the other dates are inverted as well
toggle_habito_cfg_sin_fecha(hd, hc, us, locked, user_id, habito_config_id, fecha) ==
  LET res == toggle_write(hd, hc, us, locked, user_id, habito_config_id, fecha,
                          select_completado(hd, user_id, habito_config_id, fecha))
  IN  [hd |-> {IF d.user_id = user_id /\ d.habito_config_id = habito_config_id
                  /\ d.fecha # fecha /\ res.raised = "none"
               THEN [d EXCEPT !.completado = 1 - d.completado] ELSE d : d \in res.hd},
       raised |-> res.raised]

\* toggle_habito called with no other call in between its statements
toggle_habito_cfg(hd, hc, us, locked, user_id, habito_config_id, fecha) ==
  toggle_write(hd, hc, us, locked, user_id, habito_config_id, fecha,
               select_completado(hd, user_id, habito_config_id, fecha))

\* the completion state the query reports for a habit, False when not listed
EstadoCfg(hc, hd, user_id, habito_config_id, fecha) ==
  LET filas == get_habitos_hoy_cfg(hc, hd, user_id, fecha)
  IN  \E i \in DOMAIN filas : filas[i].id = habito_config_id /\ filas[i].completado

\* ------------------------------------------------- calls of the config.py store

RegistrarUsuario(email) ==
  LET res == registrar_usuario(users_cfg, user_config, leak, email)
  IN  /\ deploy = "avisos"
      /\ users_cfg' = res.users
      /\ user_config' = res.config
      /\ last' = [NoCall EXCEPT !.op = "registrar_usuario", !.arg = <<email>>,
                                !.raised = res.raised]
      /\ run' = NoRun
      /\ UNCHANGED << deploy, otrosVars, mainVars, habitos_config, hc_seq, habitos_diarios,
                      recordatorios_config, rc_seq, rutinas_config,
                      items, items_seq, leak, calls >>

GuardarHabitosConfig(user_id, lista) ==
  LET res == guardar_habitos_config(habitos_config, hc_seq, habitos_diarios,
                                    users_cfg, leak, user_id, lista)
  IN  /\ deploy \in {"store", "guardar"}
      /\ hc_seq + Len(lista) <= (IF deploy = "guardar" THEN MaxGuardar ELSE MaxHcId)
      /\ habitos_config' = res.hc
      /\ hc_seq' = res.seq
      /\ leak' = (leak \/ Leaks(res.raised) \/ res.raised = "ProgrammingError")
      /\ last' = [NoCall EXCEPT !.op = "guardar_habitos_config", !.user = user_id,
                                !.arg = lista, !.raised = res.raised]
      /\ run' = NoRun
      /\ UNCHANGED << deploy, otrosVars, mainVars, users_cfg, user_config, habitos_diarios,
                      recordatorios_config, rc_seq, rutinas_config, items, items_seq, calls >>

GuardarRecordatorios(user_id, lista) ==
  LET res == guardar_recordatorios(recordatorios_config, rc_seq, users_cfg, leak,
                                   user_id, lista)
  IN  /\ deploy = "avisos"
      /\ rc_seq + Len(lista) <= MaxRcId
      /\ recordatorios_config' = res.rc
      /\ rc_seq' = res.seq
      /\ leak' = (leak \/ Leaks(res.raised) \/ res.raised = "ProgrammingError")
      /\ last' = [NoCall EXCEPT !.op = "guardar_recordatorios", !.user = user_id,
                                !.arg = lista, !.raised = res.raised]
      /\ run' = NoRun
      /\ UNCHANGED << deploy, otrosVars, mainVars, users_cfg, user_config, habitos_config, hc_seq,
                      habitos_diarios, rutinas_config, items, items_seq, calls >>

\* a call of get_recordatorios; a reader is not blocked by a connection that
\* holds the write lock
GetRecordatorios(user_id) ==
  /\ deploy = "avisos"
  /\ last' = [NoCall EXCEPT !.op = "get_recordatorios", !.user = user_id,
                            !.arg = get_recordatorios(recordatorios_config, user_id)]
  /\ run' = NoRun
  /\ UNCHANGED << deploy, otrosVars, mainVars, storeVars, calls >>

ToggleHabito(user_id, habito_config_id, fecha) ==
  LET res == toggle_habito_cfg(habitos_diarios, habitos_config, users_cfg, leak,
                               user_id, habito_config_id, fecha)
  IN  /\ deploy \in {"store", "guardar"}
      /\ Cabe(habitos_diarios, Cardinality(res.hd) > Cardinality(habitos_diarios))
      /\ habitos_diarios' = res.hd
      /\ leak' = (leak \/ Leaks(res.raised))
      /\ last' = [NoCall EXCEPT !.op = "toggle_habito", !.user = user_id,
                                !.hid = habito_config_id, !.fecha = fecha,
                                !.raised = res.raised]
      /\ run' = IF res.raised = "none"
                THEN NextRun(user_id, habito_config_id, fecha,
                             EstadoCfg(habitos_config, habitos_diarios, user_id,
                                       habito_config_id, fecha),
                             select_completado(habitos_diarios, user_id,
                                               habito_config_id, fecha) # None)
                ELSE NoRun
      /\ UNCHANGED << deploy, otrosVars, mainVars, users_cfg, user_config, habitos_config, hc_seq,
                      recordatorios_config, rc_seq, rutinas_config, items, items_seq, calls >>

\* ------------------------------------ config.py: routines and generic items
\* guardar_rutina: DELETE the steps of (user_id, tipo), INSERT the new ones
\* in order, commit.  The INSERT of a step raises KeyError when the step has
\* no key "paso", ProgrammingError when its paso or emoji cannot be bound, and
\* IntegrityError for a NULL paso or a user_id that is no users.id; a
\* statement that raises leaves the transaction uncommitted.
guardar_rutina(rt, us, locked, user_id, tipo, pasos) ==
  LET emoji(p) == IF "emoji" \in DOMAIN p THEN p.emoji ELSE "cuadro"
      malos == {i \in DOMAIN pasos : \/ "paso" \notin DOMAIN pasos[i]
                                     \/ Lista \in {pasos[i].paso, emoji(pasos[i])}
                                     \/ pasos[i].paso = Nulo
                                     \/ user_id \notin Ids(us)}
      i0    == CHOOSE i \in malos : \A j \in malos : i <= j
  IN  IF locked THEN [rt |-> rt, raised |-> "OperationalError"]
      ELSE IF malos # {}
      THEN [rt |-> rt,
            raised |-> IF "paso" \notin DOMAIN pasos[i0] THEN "KeyError"
                       ELSE IF Lista \in {pasos[i0].paso, emoji(pasos[i0])}
                       THEN "ProgrammingError"
                       ELSE "IntegrityError"]
      ELSE [rt |-> {r \in rt : ~ (r.user_id = user_id /\ r.tipo = tipo)}
                   \cup {[user_id |-> user_id, tipo |-> tipo, paso |-> pasos[i].paso,
                          emoji |-> emoji(pasos[i]), orden |-> i - 1] : i \in DOMAIN pasos},
            raised |-> "none"]

\* tablas_validas with, for each table, its columns other than id, user_id
\* and fecha_creacion, and the one of them that is declared NOT NULL
Tablas ==
  [ejercicios |-> [columnas |-> {"nombre", "tipo", "series", "repeticiones", "peso", "notas"},
                   no_nula  |-> "nombre"],
   libros     |-> [columnas |-> {"titulo", "autor", "estado", "progreso", "paginas_total",
                                 "notas", "fecha_inicio", "fecha_fin"},
                   no_nula  |-> "titulo"],
   viajes     |-> [columnas |-> {"destino", "fecha_inicio", "fecha_fin", "presupuesto",
                                 "gastado", "notas", "estado"},
                   no_nula  |-> "destino"],
   objetivos  |-> [columnas |-> {"titulo", "descripcion", "categoria", "fecha_limite",
                                 "progreso", "completado"},
                   no_nula  |-> "titulo"],
   diario     |-> [columnas |-> {"fecha", "contenido", "estado_animo"},
                   no_nula  |-> "fecha"]]

\* the column a key of data names in the INSERT that crear_item builds from
\* the keys: SQLite matches a column name whatever its case, and takes rowid,
\* oid and _rowid_ as names of the INTEGER PRIMARY KEY id (lower-casing, on
\* the spellings the bodies use)
columna(k) ==
  CASE k \in {"Titulo", "TITULO"} -> "titulo"
    [] k \in {"ID", "Id", "rowid", "ROWID", "oid", "_rowid_"} -> "id"
    [] k \in {"User_ID", "USER_ID"} -> "user_id"
    [] k = "Fecha_Creacion" -> "fecha_creacion"
    [] OTHER -> k

\* crear_item: None for a table that is not an item table; otherwise INSERT
\* INTO tabla every key of data (one spelling for a column) together with
\* user_id and fecha_creacion, which the method sets under those two keys.
\* A key that names no column fails when the statement is prepared, and a
\* value that cannot be bound when it is bound, both before the transaction
\* begins.  A key that names id with an integer gives the row's id, which
\* must be new in the table; with a null id or none the row gets the id
\* after the largest one the table ever held (AUTOINCREMENT, kept in
\* sqlite_sequence).  A key that names user_id in another spelling comes
\* before the method's own in the column list and is the one stored.
crear_item(it, seq, us, locked, tabla, user_id, data) ==
  LET claves   == DOMAIN data \ {"user_id", "fecha_creacion"}
      cols     == {columna(k) : k \in claves}
      valor(c) == data[CHOOSE k \in claves : columna(k) = c]
      nulo(c)  == c \notin cols \/ ToString(valor(c)) = ToString(Nulo)
      id       == IF nulo("id") THEN seq[tabla] + 1 ELSE valor("id")
      dueno    == IF "user_id" \in cols THEN valor("user_id") ELSE user_id
      queda    == [items |-> it, seq |-> seq, id |-> None]
  IN  IF tabla \notin DOMAIN Tablas THEN queda @@ [raised |-> "none"]
      ELSE IF ~ (cols \subseteq Tablas[tabla].columnas \cup {"id", "user_id", "fecha_creacion"})
      THEN queda @@ [raised |-> "OperationalError"]
      ELSE IF \E k \in claves : ToString(data[k]) = ToString(Lista)
      THEN queda @@ [raised |-> "ProgrammingError"]
      ELSE IF locked THEN queda @@ [raised |-> "OperationalError"]
      ELSE IF \/ nulo(Tablas[tabla].no_nula)
              \/ "user_id" \in cols /\ nulo("user_id")
              \/ dueno \notin Ids(us)
              \/ \E r \in it : r.tabla = tabla /\ r.id = id
      THEN queda @@ [raised |-> "IntegrityError"]
      ELSE [items |-> it \cup {[tabla |-> tabla, id |-> id, user_id |-> dueno,
                                campos |-> [c \in cols \ {"id", "user_id", "fecha_creacion"}
                                              |-> valor(c)]]},
            seq |-> [seq EXCEPT ![tabla] = IF id > @ THEN id ELSE @],
            raised |-> "none", id |-> id]

\* borrar_item: nothing for a table that is not an item table; otherwise
\* DELETE FROM tabla WHERE id = item_id AND user_id = user_id
borrar_item(it, locked, tabla, user_id, item_id) ==
  IF tabla \notin DOMAIN Tablas THEN [items |-> it, raised |-> "none"]
  ELSE IF locked THEN [items |-> it, raised |-> "OperationalError"]
  ELSE [items |-> {r \in it : ~ (r.tabla = tabla /\ r.id = item_id /\ r.user_id = user_id)},
        raised |-> "none"]

\* the steps saved as a routine
ListasPasos ==
  { <<[paso |-> "ducha"]>>, <<[paso |-> "ducha"], [emoji |-> "gota"]>>,
    <<[paso |-> Nulo]>>, <<[paso |-> "ducha", emoji |-> Lista]>> }

\* a statement of guardar_rutina or crear_item that raised after the write
\* began leaves the connection open: there is no close on that path
GuardarRutina(user_id, tipo, pasos) ==
  LET res == guardar_rutina(rutinas_config, users_cfg, leak, user_id, tipo, pasos)
  IN  /\ deploy \in {"avisos", "vinculo"}
      /\ rutinas_config' = res.rt
      /\ leak' = (leak \/ Leaks(res.raised) \/ res.raised = "ProgrammingError")
      /\ last' = [NoCall EXCEPT !.op = "guardar_rutina", !.user = user_id,
                                !.arg = pasos, !.raised = res.raised]
      /\ run' = NoRun
      /\ UNCHANGED << deploy, otrosVars, mainVars, users_cfg, user_config, habitos_config,
                      hc_seq, habitos_diarios, recordatorios_config, rc_seq, items, items_seq, calls >>

CrearItem(tabla, user_id, data) ==
  LET res == crear_item(items, items_seq, users_cfg, leak, tabla, user_id, data)
  IN  /\ deploy = "vinculo"
      /\ \A t \in DOMAIN Tablas : res.seq[t] <= MaxItems
      /\ items' = res.items
      /\ items_seq' = res.seq
      /\ leak' = (leak \/ Leaks(res.raised))
      /\ last' = [NoCall EXCEPT !.op = "crear_item", !.user = user_id,
                                !.arg = <<tabla, data, res.id>>, !.raised = res.raised]
      /\ run' = NoRun
      /\ UNCHANGED << deploy, otrosVars, mainVars, users_cfg, user_config, habitos_config,
                      hc_seq, habitos_diarios, recordatorios_config, rc_seq,
                      rutinas_config, calls >>

BorrarItem(tabla, user_id, item_id) ==
  LET res == borrar_item(items, leak, tabla, user_id, item_id)
  IN  /\ deploy = "vinculo"
      /\ items' = res.items
      /\ last' = [NoCall EXCEPT !.op = "borrar_item", !.user = user_id, !.hid = item_id,
                                !.arg = <<tabla>>, !.raised = res.raised]
      /\ run' = NoRun
      /\ UNCHANGED << deploy, otrosVars, mainVars, users_cfg, user_config, habitos_config,
                      hc_seq, habitos_diarios, recordatorios_config, rc_seq,
                      rutinas_config, items_seq, leak, calls >>

\* the garbage collector frees the connection a raising call left open; its
\* uncommitted transaction is rolled back and the write lock released
Gc ==
  /\ deploy \in {"main", "store", "avisos", "threads", "vinculo", "guardar"}
  /\ leak
  /\ leak' = FALSE
  /\ UNCHANGED << deploy, otrosVars, mainVars, users_cfg, user_config, habitos_config,
                  hc_seq, habitos_diarios, recordatorios_config, rc_seq, rutinas_config,
                  items, items_seq, calls,
                  last, run >>

\* ------------------------------------ two callers inside toggle_habito at once
\* caller t runs the SELECT of toggle_habito(user_id, habito_config_id, fecha)
ToggleSelect(t, user_id, habito_config_id, fecha) ==
  /\ deploy = "threads"
  /\ calls[t].pc = "idle"
  /\ calls' = [calls EXCEPT ![t] =
       [pc |-> "selected", user |-> user_id, hid |-> habito_config_id, fecha |-> fecha,
        row |-> select_completado(habitos_diarios, user_id, habito_config_id, fecha),
        raised |-> "none",
        antes |-> EstadoCfg(habitos_config, habitos_diarios, user_id,
                            habito_config_id, fecha),
        primero |-> \A o \in Threads \ {t} : calls[o].pc = "idle"]]
  /\ UNCHANGED << deploy, otrosVars, mainVars, storeVars, last, run >>

\* caller t runs its UPDATE or INSERT.  The statement needs the write lock:
\* while a connection left open, or the uncommitted write of the other
\* caller, holds it, the statement waits out the busy timeout of the
\* connection (sqlite3.connect's default, 5 s) and raises OperationalError.
\* A statement that succeeds keeps the lock, and its row is not yet the row
\* other connections read, until the caller commits.
ToggleWrite(t) ==
  LET c   == calls[t]
      res == toggle_write(habitos_diarios, habitos_config, users_cfg,
                          leak \/ \E o \in Threads \ {t} : calls[o].pc = "written",
                          c.user, c.hid, c.fecha, c.row)
  IN  /\ deploy = "threads"
      /\ c.pc = "selected"
      /\ leak' = (leak \/ Leaks(res.raised))
      /\ calls' = [calls EXCEPT ![t] =
                     [c EXCEPT !.pc = IF res.raised = "none" THEN "written" ELSE "done",
                               !.raised = res.raised]]
      /\ UNCHANGED << deploy, otrosVars, mainVars, users_cfg, user_config, habitos_config, hc_seq,
                      habitos_diarios, recordatorios_config, rc_seq, rutinas_config,
                      items, items_seq, last, run >>

\* caller t runs conn.commit() and conn.close(): the row its statement wrote
\* (no other connection could write since) becomes the row every connection
\* reads, and the write lock is free again
ToggleCommit(t) ==
  LET c   == calls[t]
      res == toggle_write(habitos_diarios, habitos_config, users_cfg, FALSE,
                          c.user, c.hid, c.fecha, c.row)
  IN  /\ deploy = "threads"
      /\ c.pc = "written"
      /\ habitos_diarios' = res.hd
      /\ calls' = [calls EXCEPT ![t] = [c EXCEPT !.pc = "done"]]
      /\ UNCHANGED << deploy, otrosVars, mainVars, users_cfg, user_config, habitos_config, hc_seq,
                      recordatorios_config, rc_seq, rutinas_config, items, items_seq, leak,
                      last, run >>

\* ------------------------------------------------------------- specification
EmptyStore ==
  /\ users_cfg = {} /\ user_config = {} /\ habitos_config = {} /\ hc_seq = 0 /\ habitos_diarios = {}
  /\ recordatorios_config = {} /\ rc_seq = 0 /\ leak = FALSE

InitMain ==
  /\ deploy = "main"
  /\ hoy \in Fechas
  /\ users = {} /\ habitos = {}
  /\ EmptyStore

\* the accounts after registrar_usuario("a@x.com"), registrar_usuario("b@x.com")
DosCuentas ==
  {[id |-> 1, email |-> "a@x.com", telegram_chat_id |-> None],
   [id |-> 2, email |-> "b@x.com", telegram_chat_id |-> None]}

DosConfigs ==
  {[user_id |-> u, zona_horaria |-> "Europe/Madrid", idioma |-> "es"] : u \in {1, 2}}

\* "avisos" starts from the empty database; "store" from the two accounts
InitStore ==
  /\ deploy \in {"store", "avisos"}
  /\ hoy = "2026-02-17"
  /\ users = {} /\ habitos = {}
  /\ users_cfg = IF deploy = "store" THEN DosCuentas ELSE {}
  /\ user_config = IF deploy = "store" THEN DosConfigs ELSE {}
  /\ habitos_config = {} /\ hc_seq = 0 /\ habitos_diarios = {}
  /\ recordatorios_config = {} /\ rc_seq = 0 /\ leak = FALSE

\* the store before the two concurrent calls: two accounts, user 1 has saved
\* one habit and has toggled it on the first date zero, one or two times
InitThreads ==
  /\ deploy = "threads"
  /\ hoy = "2026-02-17"
  /\ users = {} /\ habitos = {}
  /\ users_cfg = DosCuentas /\ user_config = DosConfigs
  /\ habitos_config = {[id |-> 1, user_id |-> 1, nombre |-> "leer", emoji |-> "libro",
                        orden |-> 0, activo |-> 1]}
  /\ hc_seq = 1
  /\ \E n \in 0..2 :
       habitos_diarios =
         IF n = 0 THEN {}
         ELSE {[copia |-> 1, user_id |-> 1, habito_config_id |-> 1,
                fecha |-> "2026-02-17", completado |-> IF n = 1 THEN 1 ELSE 0]}
  /\ recordatorios_config = {} /\ rc_seq = 0 /\ leak = FALSE

Init ==
  /\ InitMain \/ InitStore \/ InitThreads
  /\ calls = [t \in Threads |-> Idle]
  /\ libros = {} /\ rutinas_config = {} /\ items = {}
  /\ libros_seq = 0 /\ items_seq = [t \in DOMAIN Tablas |-> 0]
  /\ bot = NoBot /\ sessions = <<>>
  /\ last = NoCall
  /\ run = NoRun

Next ==
  \/ \E c \in Chats, n \in Nombres : cmd_start(c, n)
  \/ \E c \in Chats, d \in CallbackData : callback_habito(c, d)
  \/ \E f \in Fechas, h \in HabitosPedidos : toggle_habito_api(f, h)
  \/ Medianoche
  \/ \E e \in Emails \cup {" A@X.com "} : RegistrarUsuario(e)
  \/ \E u \in UserIds, l \in ListasHabitos : GuardarHabitosConfig(u, l)
  \/ \E u \in UserIds, l \in ListasRecordatorios : GuardarRecordatorios(u, l)
  \/ \E u \in UserIds, h \in {1, 2}, f \in Fechas : ToggleHabito(u, h, f)
  \/ Gc
  \/ \E t \in Threads, h \in {1}, f \in Fechas : ToggleSelect(t, 1, h, f)
  \/ \E t \in Threads : ToggleWrite(t)
  \/ \E t \in Threads : ToggleCommit(t)

Spec == Init /\ [][Next]_vars

\* ------------------------------------------- the habits-for-date query, alone
\* the tables the query is applied to: definitions of two users, one of them
\* deactivated, and up to MaxRows completion rows that respect the UNIQUE and
\* FOREIGN KEY constraints
DefsConsulta ==
  { [id |-> 1, user_id |-> 1, nombre |-> "leer", emoji |-> "libro", orden |-> 0, activo |-> 1],
    [id |-> 2, user_id |-> 1, nombre |-> "meditar", emoji |-> "check", orden |-> 1, activo |-> 0],
    [id |-> 3, user_id |-> 1, nombre |-> "ducha", emoji |-> "gota", orden |-> 2, activo |-> 1],
    [id |-> 4, user_id |-> 2, nombre |-> "leer", emoji |-> "libro", orden |-> 0, activo |-> 1] }

FilasConsulta ==
  [copia : {1}, user_id : UserIds, habito_config_id : {1, 2, 3, 4}, fecha : Fechas,
   completado : {0, 1}]

\* the subsets of S of at most k elements
RECURSIVE Hasta(_, _)
Hasta(S, k) ==
  IF k = 0 THEN {{}}
  ELSE LET P == Hasta(S, k - 1) IN P \cup {p \cup {x} : p \in P, x \in S}

FilasMain ==
  [copia : {1}, chat_id : Chats, fecha : Fechas, habito : {"leer", "meditar"},
   completado : {0, 1}]

InitConsulta ==
  /\ deploy \in {"consulta", "consulta_main"}
  /\ hoy = "2026-02-17"
  /\ users = {}
  /\ users_cfg = DosCuentas /\ user_config = DosConfigs
  /\ IF deploy = "consulta"
     THEN /\ habitos = {}
          /\ habitos_config \in SUBSET DefsConsulta
          /\ habitos_diarios \in Hasta(FilasConsulta, MaxRows)
          /\ \A d \in habitos_diarios : d.habito_config_id \in Ids(habitos_config)
          /\ \A d, e \in habitos_diarios :
               (d.user_id = e.user_id /\ d.habito_config_id = e.habito_config_id
                /\ d.fecha = e.fecha) => d = e
     ELSE /\ habitos \in Hasta(FilasMain, MaxRows)
          /\ \A d, e \in habitos :
               (d.chat_id = e.chat_id /\ d.habito = e.habito /\ d.fecha = e.fecha) => d = e
          /\ habitos_config = {}
          /\ habitos_diarios = {}
  /\ hc_seq = 4
  /\ recordatorios_config = {} /\ rc_seq = 0 /\ leak = FALSE
  /\ calls = [t \in Threads |-> Idle]
  /\ libros = {} /\ rutinas_config = {} /\ items = {}
  /\ libros_seq = 0 /\ items_seq = [t \in DOMAIN Tablas |-> 0]
  /\ bot = NoBot /\ sessions = <<>>
  /\ last = NoCall
  /\ run = NoRun

\* config.py: get_habitos_hoy(user_id, fecha)
GetHabitosHoy(user_id, fecha) ==
  /\ deploy = "consulta"
  /\ last' = [NoCall EXCEPT !.op = "get_habitos_hoy", !.user = user_id, !.fecha = fecha,
                            !.arg = get_habitos_hoy_cfg(habitos_config, habitos_diarios,
                                                        user_id, fecha)]
  /\ UNCHANGED << deploy, otrosVars, mainVars, storeVars, calls, run >>

\* database.py: get_habitos_hoy(chat_id, fecha)
GetHabitosHoyMain(chat_id, fecha) ==
  /\ deploy = "consulta_main"
  /\ last' = [NoCall EXCEPT !.op = "get_habitos_hoy", !.user = chat_id, !.fecha = fecha,
                            !.arg = get_habitos_hoy(habitos, chat_id, fecha)]
  /\ UNCHANGED << deploy, otrosVars, mainVars, storeVars, calls, run >>

NextConsulta ==
  \/ \E u \in UserIds, f \in Fechas : GetHabitosHoy(u, f)
  \/ \E c \in Chats, f \in Fechas : GetHabitosHoyMain(c, f)

SpecConsulta == InitConsulta /\ [][NextConsulta]_vars

\* ------------------------------------------------------- the bot of main.py
\* main.py with its scheduler running: the handlers of the bot, the clock
\* and the reminder scans, from the first observed minute of the first day.
\* Chat 1 has completed its first k habits on both days.
InitBot ==
  /\ deploy = "main"
  /\ hoy = "2026-02-17"
  /\ users \in { {}, {[chat_id |-> 1, nombre |-> "Ana"]},
                 {[chat_id |-> 1, nombre |-> "Ana"], [chat_id |-> 2, nombre |-> "Ana"]} }
  /\ \E k \in {0, 2, 3, 5} :
       habitos = {[copia |-> 1, chat_id |-> 1, fecha |-> f,
                   habito |-> nombres[i], completado |-> 1] : i \in 1..k, f \in Fechas}
  /\ EmptyStore
  /\ calls = [t \in Threads |-> Idle]
  /\ libros = {} /\ rutinas_config = {} /\ items = {}
  /\ libros_seq = 0 /\ items_seq = [t \in DOMAIN Tablas |-> 0]
  /\ \E c \in SUBSET Chats : bot = [NoBot EXCEPT !.reloj = Minutos[1], !.caidos = c]
  /\ sessions = <<>>
  /\ last = NoCall
  /\ run = NoRun

NextBot ==
  \/ Tick
  \/ Enviar
  \/ \E c \in Chats, n \in {"Ana"} : cmd_start(c, n)

SpecBot == InitBot /\ [][NextBot]_vars

\* ------------------------------------------------------------- the summary
\* /resumen over a table in which chat 1 has its first k habits completed
\* today and, when k < 5, the next one toggled back
InitResumen ==
  /\ deploy = "main"
  /\ hoy \in Fechas
  /\ users = {[chat_id |-> 1, nombre |-> "Ana"], [chat_id |-> 2, nombre |-> "Bea"]}
  /\ \E k \in 0..Len(nombres) :
       habitos = {[copia |-> 1, chat_id |-> 1, fecha |-> hoy,
                   habito |-> nombres[i], completado |-> 1] : i \in 1..k}
                 \cup {[copia |-> 1, chat_id |-> 1, fecha |-> hoy,
                        habito |-> nombres[i], completado |-> 0] :
                         i \in {k + 1} \cap DOMAIN nombres}
  /\ EmptyStore
  /\ calls = [t \in Threads |-> Idle]
  /\ libros = {} /\ rutinas_config = {} /\ items = {}
  /\ libros_seq = 0 /\ items_seq = [t \in DOMAIN Tablas |-> 0]
  /\ bot = NoBot /\ sessions = <<>>
  /\ last = NoCall
  /\ run = NoRun

NextResumen ==
  \/ \E c \in Chats : cmd_resumen(c)
  \/ \E c \in Chats, d \in CallbackData : callback_habito(c, d)

SpecResumen == InitResumen /\ [][NextResumen]_vars

\* ------------------------------------------------------- the weekly rollup
\* the dates asked of GET /api/habitos/semana/{fecha}, as character sequences
FechasPedidas ==
  { <<"2","0","2","6","-","0","2","-","1","8">>,
    <<"2","0","2","6","-","0","3","-","0","3">>,
    <<"2","0","2","4","-","0","3","-","0","2">>,
    <<"2","0","2","6","-","0","1","-","0","4">>,
    <<"2","0","2","6","-","3","-","3">>,
    <<"2","0","2","6","-","0","2","-","3","0">>,
    <<"0","0","0","1","-","0","1","-","0","3">>,
    <<"1","8","-","0","2","-","2","0","2","6">>,
    <<"U+FF12","U+FF10","U+FF12","U+FF16","-","0","2","-","1","8">>,
    <<"2","0","2","6","-","0","2","-","1","U+0668">>,
    <<"U+0968","U+0966","U+0968","U+096C","-","0","2","-","1","U+096E">>,
    <<"2","0","2","6","-","0","U+FF12","-","1","8">> }

\* completion rows on days inside and outside the weeks asked for
FilasSemana ==
  { [copia |-> 1, chat_id |-> c, fecha |-> f, habito |-> e[1], completado |-> e[2]] :
      c \in Chats,
      f \in {"2026-02-11", "2026-02-12", "2026-02-28", "2024-02-29", "2025-12-31"},
      e \in {<<"leer", 1>>, <<"leer", 0>>, <<"meditar", 1>>} }

InitSemana ==
  /\ deploy = "main"
  /\ hoy = "2026-02-18"
  /\ users \in { {}, {[chat_id |-> 1, nombre |-> "Ana"]},
                 {[chat_id |-> 1, nombre |-> "Ana"], [chat_id |-> 2, nombre |-> "Bea"]} }
  /\ habitos \in Hasta(FilasSemana, MaxRows)
  /\ \A d, e \in habitos :
       (d.chat_id = e.chat_id /\ d.habito = e.habito /\ d.fecha = e.fecha) => d = e
  /\ EmptyStore
  /\ calls = [t \in Threads |-> Idle]
  /\ libros = {} /\ rutinas_config = {} /\ items = {}
  /\ libros_seq = 0 /\ items_seq = [t \in DOMAIN Tablas |-> 0]
  /\ bot = NoBot /\ sessions = <<>>
  /\ last = NoCall
  /\ run = NoRun

\* the dates sent to the two endpoints that take the date as it comes
FechasDirectas ==
  { <<"2","0","2","6","-","0","2","-","1","8">>,
    <<"2","0","2","6","-","0","2","-","3","0">> }

NextSemana ==
  \/ \E f \in FechasPedidas : get_habitos_semana(f)
  \/ \E f \in FechasDirectas : get_habitos(Cadena(f))
  \/ \E f \in FechasDirectas, h \in {"leer", "nadar"} : toggle_habito_api(Cadena(f), h)

SpecSemana == InitSemana /\ [][NextSemana]_vars

\* ------------------------------------------- the counts of the summaries
\* callback queries of a keyboard of the bot and of a keyboard that is not
\* the bot's; the handler is registered for every data that begins "habito_"
CallbackDataBarra == { <<"habito", h, "toggle">> : h \in {"proyecto", "nadar"} }

\* chat 1 has completed four habits today and has pressed the buttons
\* "proyecto" and "nadar" an even or odd number of times
InitBarra ==
  /\ deploy = "main"
  /\ hoy \in Fechas
  /\ users = {[chat_id |-> 1, nombre |-> "Ana"], [chat_id |-> 2, nombre |-> "Bea"]}
  /\ \E p, n \in {0, 1} :
       habitos = {[copia |-> 1, chat_id |-> 1, fecha |-> hoy,
                   habito |-> nombres[i], completado |-> 1] : i \in 1..4}
                 \cup {[copia |-> 1, chat_id |-> 1, fecha |-> hoy,
                        habito |-> "proyecto", completado |-> p],
                       [copia |-> 1, chat_id |-> 1, fecha |-> hoy,
                        habito |-> "nadar", completado |-> n]}
  /\ EmptyStore
  /\ calls = [t \in Threads |-> Idle]
  /\ libros = {} /\ rutinas_config = {} /\ items = {}
  /\ libros_seq = 0 /\ items_seq = [t \in DOMAIN Tablas |-> 0]
  /\ bot = NoBot /\ sessions = <<>>
  /\ last = NoCall
  /\ run = NoRun

NextBarra ==
  \/ \E c \in Chats : cmd_resumen(c)
  \/ \E c \in Chats, d \in CallbackDataBarra : callback_habito(c, d)
  \/ \E f \in Fechas, h \in HabitosPedidos : toggle_habito_api(f, h)
  \/ \E f \in Fechas : get_habitos(f)

SpecBarra == InitBarra /\ [][NextBarra]_vars

\* ------------------------------------------ the life of the process, alone
\* the process before lifespan begins, over the database file of earlier runs
InitVida ==
  /\ deploy = "main"
  /\ hoy = "2026-02-17"
  /\ users \in { {[chat_id |-> 1, nombre |-> "Ana"]},
                 {[chat_id |-> 1, nombre |-> "Ana"], [chat_id |-> 2, nombre |-> "Bea"]} }
  /\ habitos = {}
  /\ EmptyStore
  /\ calls = [t \in Threads |-> Idle]
  /\ libros = {} /\ rutinas_config = {} /\ items = {}
  /\ libros_seq = 0 /\ items_seq = [t \in DOMAIN Tablas |-> 0]
  /\ \E c \in SUBSET Chats, m \in {1, 3} :
       bot = [NoBot EXCEPT !.reloj = Minutos[m], !.caidos = c, !.fase = 0]
  /\ sessions = <<>>
  /\ last = NoCall
  /\ run = NoRun

NextVida ==
  \/ Paso
  \/ SchedulerShutdown
  \/ Tick
  \/ Enviar
  \/ \E c \in Chats : cmd_start(c, "Ana")
  \/ callback_habito(1, <<"habito", "leer", "toggle">>)

SpecVida == InitVida /\ [][NextVida]_vars

\* -------------------------------- main.py with its collections of items
\* the bot and the HTTP API of main.py together with the endpoints of the
\* exercises, books and trips, whose failed writes keep the database locked
InitColecciones ==
  /\ deploy = "main"
  /\ hoy = "2026-02-17"
  /\ users \in { {}, {[chat_id |-> 2, nombre |-> "Bea"]} }
  /\ habitos = {}
  /\ EmptyStore
  /\ calls = [t \in Threads |-> Idle]
  /\ libros = {} /\ rutinas_config = {} /\ items = {}
  /\ libros_seq = 0 /\ items_seq = [t \in DOMAIN Tablas |-> 0]
  /\ bot = NoBot /\ sessions = <<>>
  /\ last = NoCall
  /\ run = NoRun

NextColecciones ==
  \/ \E c \in Chats, n \in Nombres : cmd_start(c, n)
  \/ \E c \in Chats : callback_habito(c, <<"habito", "leer", "toggle">>)
  \/ \E h \in {"leer", "nadar"} : toggle_habito_api("2026-02-17", h)
  \/ \E d \in Cuerpos("nombre") : crear_ejercicio(d)
  \/ \E d \in Cuerpos("destino") : crear_viaje(d)
  \/ \E d \in Cuerpos("titulo") : crear_libro(d)
  \/ \E d \in Cuerpos("titulo") : actualizar_libro(1, d)
  \/ borrar_libro(1)
  \/ Gc

SpecColecciones == InitColecciones /\ [][NextColecciones]_vars

\* ---------------------------------------------- the chat link of config.py
\* vincular_telegram: UPDATE users SET telegram_chat_id = ? WHERE id = ?
vincular_telegram(us, locked, user_id, chat_id) ==
  IF locked
  THEN [users |-> us, raised |-> "OperationalError"]
  ELSE [users |-> {IF r.id = user_id THEN [r EXCEPT !.telegram_chat_id = chat_id] ELSE r :
                     r \in us},
        raised |-> "none"]

\* get_user_by_telegram: fetchone() of the rows with that chat, None if none
get_user_by_telegram(us, chat_id) ==
  LET rows == {r \in us : r.telegram_chat_id = chat_id}
  IN  IF rows = {} THEN None
      ELSE CHOOSE r \in rows : \A x \in rows : r.id <= x.id

\* get_all_users_with_telegram: the rows whose telegram_chat_id is not NULL
get_all_users_with_telegram(us) ==
  OrderBy({<<r.id, r>> : r \in {x \in us : x.telegram_chat_id # None}})

\* chat identities offered to the link flow
ChatsVinculo == {1, 2, 3}

VincularTelegram(user_id, chat_id) ==
  LET res == vincular_telegram(users_cfg, leak, user_id, chat_id)
  IN  /\ deploy = "vinculo"
      /\ users_cfg' = res.users
      /\ last' = [NoCall EXCEPT !.op = "vincular_telegram", !.user = user_id,
                                !.arg = chat_id, !.raised = res.raised]
      /\ run' = NoRun
      /\ UNCHANGED << deploy, otrosVars, mainVars, user_config, habitos_config, hc_seq,
                      habitos_diarios, recordatorios_config, rc_seq, rutinas_config,
                      items, items_seq, leak, calls >>

GetUserByTelegram(chat_id) ==
  /\ deploy = "vinculo"
  /\ last' = [NoCall EXCEPT !.op = "get_user_by_telegram",
                            !.arg = get_user_by_telegram(users_cfg, chat_id)]
  /\ run' = NoRun
  /\ UNCHANGED << deploy, otrosVars, mainVars, storeVars, calls >>

GetAllUsersWithTelegram ==
  /\ deploy = "vinculo"
  /\ last' = [NoCall EXCEPT !.op = "get_all_users_with_telegram",
                            !.arg = get_all_users_with_telegram(users_cfg)]
  /\ run' = NoRun
  /\ UNCHANGED << deploy, otrosVars, mainVars, storeVars, calls >>

\* the two accounts after registration, no chat linked
InitVinculo ==
  /\ deploy = "vinculo"
  /\ hoy = "2026-02-17"
  /\ users = {} /\ habitos = {}
  /\ users_cfg = DosCuentas /\ user_config = DosConfigs
  /\ habitos_config = {} /\ hc_seq = 0 /\ habitos_diarios = {}
  /\ recordatorios_config = {} /\ rc_seq = 0 /\ leak = FALSE
  /\ calls = [t \in Threads |-> Idle]
  /\ libros = {} /\ rutinas_config = {} /\ items = {}
  /\ libros_seq = 0 /\ items_seq = [t \in DOMAIN Tablas |-> 0]
  /\ bot = NoBot /\ sessions = <<>>
  /\ last = NoCall
  /\ run = NoRun

NextVinculo ==
  \/ \E u \in UserIds \cup {3}, c \in ChatsVinculo : VincularTelegram(u, c)
  \/ \E c \in ChatsVinculo : GetUserByTelegram(c)
  \/ GetAllUsersWithTelegram
  \/ \E u \in UserIds \cup {3}, p \in ListasPasos : GuardarRutina(u, "manana", p)
  \/ \E t \in {"libros", "users"}, u \in UserIds \cup {3} :
       CrearItem(t, u, [titulo |-> "Dune"])
  \/ \E u \in UserIds,
        d \in {[autor |-> "Herbert"], [titulo |-> "Dune", paginas |-> "412"],
                [id |-> 1, titulo |-> "Dune"], [id |-> 2, titulo |-> "Dune"],
                [Titulo |-> "Dune"], [oid |-> 1, TITULO |-> "Dune"],
                [titulo |-> "Dune", notas |-> Lista]} :
       CrearItem("libros", u, d)
  \/ \E d \in {[id |-> Nulo, titulo |-> "Dune"], [User_ID |-> 2, titulo |-> "Dune"]} :
       CrearItem("libros", 1, d)
  \/ \E t \in {"libros", "users"}, u \in UserIds : BorrarItem(t, u, 1)
  \/ Gc

SpecVinculo == InitVinculo /\ [][NextVinculo]_vars

\* ------------------------------------------------- the Session Authenticator
\* opaque tokens; "t0" is a token that is never issued
Tokens == {"t1", "t2", "t3"}

\* a generator that can return a token that is already in the table
tokens_nuevos_repetibles(ses) == Tokens

\* the tokens the random generator can return: none that is in the table
tokens_nuevos(ses) == Tokens \ DOMAIN ses

\* createSession(user) -> token: store token -> user.id in the process-wide
\* table and return the token
createSession(user_id) ==
  /\ deploy = "sesiones"
  /\ \E tok \in tokens_nuevos(sessions) :
       /\ sessions' = [t \in DOMAIN sessions \cup {tok} |->
                         IF t = tok THEN user_id ELSE sessions[t]]
       /\ last' = [NoCall EXCEPT !.op = "createSession", !.user = user_id, !.arg = tok]
  /\ run' = NoRun
  /\ UNCHANGED << deploy, bot, mainVars, storeVars, calls >>

\* resolveSession(token) -> user.id; Unauthenticated if the token is unknown
resolveSession(tok) ==
  /\ deploy = "sesiones"
  /\ last' = IF tok \in DOMAIN sessions
             THEN [NoCall EXCEPT !.op = "resolveSession", !.arg = tok,
                                 !.user = sessions[tok]]
             ELSE [NoCall EXCEPT !.op = "resolveSession", !.arg = tok,
                                 !.raised = "Unauthenticated"]
  /\ run' = NoRun
  /\ UNCHANGED << deploy, otrosVars, mainVars, storeVars, calls >>

\* the process after start: two accounts, no session
InitSesiones ==
  /\ deploy = "sesiones"
  /\ hoy = "2026-02-17"
  /\ users = {} /\ habitos = {}
  /\ users_cfg = DosCuentas /\ user_config = DosConfigs
  /\ habitos_config = {} /\ hc_seq = 0 /\ habitos_diarios = {}
  /\ recordatorios_config = {} /\ rc_seq = 0 /\ leak = FALSE
  /\ calls = [t \in Threads |-> Idle]
  /\ libros = {} /\ rutinas_config = {} /\ items = {}
  /\ libros_seq = 0 /\ items_seq = [t \in DOMAIN Tablas |-> 0]
  /\ bot = NoBot /\ sessions = <<>>
  /\ last = NoCall
  /\ run = NoRun

NextSesiones ==
  \/ \E u \in UserIds : createSession(u)
  \/ \E tok \in Tokens \cup {"t0"} : resolveSession(tok)

SpecSesiones == InitSesiones /\ [][NextSesiones]_vars

\* --------------------------------------------- the saves of the habit list
\* the lists saved: those of ListasHabitos, the empty list, two lists of
\* three items (one names a habit twice, one has a null emoji) and a list
\* with an item whose nombre cannot be bound
ListasGuardar ==
  ListasHabitos \cup
  { <<>>,
    <<H1, [nombre |-> "meditar"], [nombre |-> "ducha", emoji |-> Nulo]>>,
    <<[nombre |-> "ducha", emoji |-> "gota"], H1, H1>>,
    <<H1, [nombre |-> Lista]>> }

\* the two accounts and no habit saved yet
InitGuardar ==
  /\ deploy = "guardar"
  /\ hoy = "2026-02-17"
  /\ users = {} /\ habitos = {}
  /\ users_cfg = DosCuentas /\ user_config = DosConfigs
  /\ habitos_config = {} /\ hc_seq = 0 /\ habitos_diarios = {}
  /\ recordatorios_config = {} /\ rc_seq = 0 /\ leak = FALSE
  /\ calls = [t \in Threads |-> Idle]
  /\ libros = {} /\ rutinas_config = {} /\ items = {}
  /\ libros_seq = 0 /\ items_seq = [t \in DOMAIN Tablas |-> 0]
  /\ bot = NoBot /\ sessions = <<>>
  /\ last = NoCall
  /\ run = NoRun

\* saves by the two accounts and by an id that is no account, toggles of
\* the first definitions by user 1, and the release of a connection left open
NextGuardar ==
  \/ \E u \in UserIds \cup {3}, l \in ListasGuardar : GuardarHabitosConfig(u, l)
  \/ \E h \in {1, 2} : ToggleHabito(1, h, "2026-02-17")
  \/ Gc

SpecGuardar == InitGuardar /\ [][NextGuardar]_vars

\* ------------------------------------------------ the reminder table, alone
\* reminder rows of the two accounts, active and inactive
FilasAvisos ==
  [id : 1..MaxRows, user_id : UserIds, tipo : {"manana", "noche"},
   hora : {"07:00", "08:00"}, activo : {0, 1}]

\* the two accounts and up to MaxRows reminder rows with the rowids 1, 2, ..
InitAvisos ==
  /\ deploy = "avisos"
  /\ hoy = "2026-02-17"
  /\ users = {} /\ habitos = {}
  /\ users_cfg = DosCuentas /\ user_config = DosConfigs
  /\ habitos_config = {} /\ hc_seq = 0 /\ habitos_diarios = {}
  /\ recordatorios_config \in Hasta(FilasAvisos, MaxRows)
  /\ {r.id : r \in recordatorios_config} = 1..Cardinality(recordatorios_config)
  /\ rc_seq = Cardinality(recordatorios_config)
  /\ leak = FALSE
  /\ calls = [t \in Threads |-> Idle]
  /\ libros = {} /\ rutinas_config = {} /\ items = {}
  /\ libros_seq = 0 /\ items_seq = [t \in DOMAIN Tablas |-> 0]
  /\ bot = NoBot /\ sessions = <<>>
  /\ last = NoCall
  /\ run = NoRun

NextAvisos ==
  \/ \E u \in UserIds, l \in ListasRecordatorios : GuardarRecordatorios(u, l)
  \/ \E u \in UserIds : GetRecordatorios(u)
  \/ \E p \in ListasPasos : GuardarRutina(1, "manana", p)
  \/ Gc

SpecAvisos == InitAvisos /\ [][NextAvisos]_vars

\* ===================================================================== claims
\* the habit of the last call is one the query lists for the user of the call
Listado ==
  \/ deploy = "main"
  \/ \E c \in habitos_config : c.id = last.hid /\ c.user_id = last.user /\ c.activo = 1

\* what the habits-for-date query reports for the key of the last call
Reportado ==
  IF deploy = "main" THEN Estado(habitos, last.user, last.fecha, last.hid)
  ELSE EstadoCfg(habitos_config, habitos_diarios, last.user, last.hid, last.fecha)

\* the completion rows of the key of the last call
FilasDeLaClave ==
  IF deploy = "main"
  THEN {r.completado : r \in {x \in habitos : x.chat_id = last.user /\ x.fecha = last.fecha
                                               /\ x.habito = last.hid}}
  ELSE {r.completado : r \in {x \in habitos_diarios :
                                x.user_id = last.user /\ x.fecha = last.fecha
                                /\ x.habito_config_id = last.hid}}

\* C1: after an even number of consecutive toggles of a key the query reports
\* the state it reported before them, after an odd number the inverse, from
\* every starting state of the key (no row, row false, row true).
C1_TogglePairing ==
  (run.n > 0 /\ Listado) =>
     Reportado = (IF run.n % 2 = 0 THEN run.orig ELSE ~ run.orig)

C1_Witness ==
  /\ deploy = "store" /\ Listado
  /\ run.n = 2 /\ run.fila /\ run.orig
  /\ Reportado

\* C2: the first toggle of a key that has no row creates the row with
\* completado = 1, and the query reports the habit as completed.
C2_FirstToggleTrue ==
  (run.n = 1 /\ ~ run.fila /\ Listado) => (FilasDeLaClave = {1} /\ Reportado)

C2_Witness ==
  /\ deploy = "main" /\ Listado
  /\ run.n = 1 /\ ~ run.fila
  /\ FilasDeLaClave = {1}

\* C3: a toggle by one user changes nothing of what the query returns for any
\* other user on any date, also when both use the same habit identifier.
C3_Isolation ==
  [][ ( /\ last'.op \in {"callback_habito", "toggle_habito_api", "toggle_habito"}
        /\ deploy \in {"main", "store"} ) =>
        /\ \A b \in Chats \ {last'.user} : \A f \in Fechas :
             get_habitos_hoy(habitos', b, f) = get_habitos_hoy(habitos, b, f)
        /\ \A b \in UserIds \ {last'.user} : \A f \in Fechas :
             get_habitos_hoy_cfg(habitos_config', habitos_diarios', b, f)
               = get_habitos_hoy_cfg(habitos_config, habitos_diarios, b, f) ]_vars

\* user A has just toggled a habit identifier on which user B holds a
\* completed row of the same date
C3_Witness ==
  /\ deploy = "store"
  /\ last.op = "toggle_habito" /\ last.raised = "none"
  /\ \E d \in habitos_diarios :
       /\ d.user_id # last.user /\ d.habito_config_id = last.hid
       /\ d.fecha = last.fecha /\ d.completado = 1
       /\ EstadoCfg(habitos_config, habitos_diarios, d.user_id, d.habito_config_id, d.fecha)
  /\ FilasDeLaClave = {0}

\* C4: in every reachable state each completion table holds at most one row
\* per (user, habit, date) key.
C4_OneRowPerKey ==
  /\ \A r, q \in habitos :
       (r.chat_id = q.chat_id /\ r.fecha = q.fecha /\ r.habito = q.habito) => r = q
  /\ \A r, q \in habitos_diarios :
       (r.user_id = q.user_id /\ r.fecha = q.fecha
        /\ r.habito_config_id = q.habito_config_id) => r = q

\* two overlapping toggles of one key have both finished; the second INSERT
\* was refused by the UNIQUE constraint
C4_Witness ==
  /\ deploy = "threads"
  /\ \A t \in Threads : calls[t].pc = "done"
  /\ calls[1].fecha = calls[2].fecha
  /\ \E t \in Threads : calls[t].row = None /\ calls[t].raised = "IntegrityError"
  /\ \E d \in habitos_diarios : d.fecha = calls[1].fecha

\* C5: for every interleaving of two concurrent toggle calls on one key, both
\* calls succeed and the key ends in the state two toggles one after the
\* other leave it in, which is the state it had before both calls.
C5_AtomicToggle ==
  \A t, o \in Threads :
    ( /\ deploy = "threads" /\ t # o
      /\ calls[t].pc = "done" /\ calls[o].pc = "done"
      /\ calls[t].primero
      /\ calls[t].user = calls[o].user /\ calls[t].hid = calls[o].hid
      /\ calls[t].fecha = calls[o].fecha )
    => /\ calls[t].raised = "none" /\ calls[o].raised = "none"
       /\ EstadoCfg(habitos_config, habitos_diarios, calls[t].user, calls[t].hid,
                    calls[t].fecha) = calls[t].antes

\* C6: when guardar_habitos_config(user, L) returns, the query returns for
\* the user, on every date, exactly Len(L) entries, the i-th with the nombre
\* and the emoji of the i-th item of L and completado = False, and no
\* definition the user had before the call is left; for every list L the
\* method accepts: the empty list, lists of one, two and three items, with
\* a habit named twice, with a null emoji.
C6_ReplaceAll ==
  [][ (last'.op = "guardar_habitos_config" /\ last'.raised = "none") =>
        /\ \A f \in Fechas :
             LET q == get_habitos_hoy_cfg(habitos_config', habitos_diarios', last'.user, f)
                 L == last'.arg
             IN  /\ Len(q) = Len(L)
                 /\ \A i \in DOMAIN q :
                      /\ q[i].nombre = L[i].nombre
                      /\ q[i].emoji = (IF "emoji" \in DOMAIN L[i] THEN L[i].emoji ELSE "check")
                      /\ q[i].completado = FALSE
        /\ \A c \in habitos_config : c.user_id = last'.user => c \notin habitos_config' ]_vars

\* user 2 has saved a list of three items over the two definitions saved
\* before (ids 2 and 3), while user 1 holds definition 1 with a completed row
C6_Witness ==
  /\ last.op = "guardar_habitos_config" /\ last.raised = "none" /\ last.user = 2
  /\ Len(last.arg) = 3
  /\ hc_seq = 6 /\ Cardinality(habitos_config) = 4
  /\ \E c \in habitos_config : c.user_id = 1 /\ c.id = 1
  /\ \E d \in habitos_diarios : d.habito_config_id = 1 /\ d.completado = 1
  /\ Len(get_habitos_hoy_cfg(habitos_config, habitos_diarios, 2, "2026-02-17")) = 3

\* C7: the query returns one entry per active definition of the user, none
\* for an inactive definition or a definition of another user, in ascending
\* orden; completado is the value of the completion row of (user, definition,
\* date) when there is one and False when there is none.
C7_Query ==
  /\ (deploy = "consulta" /\ last.op = "get_habitos_hoy") =>
       LET q       == last.arg
           activos == {c \in habitos_config : c.user_id = last.user /\ c.activo = 1}
           def(i)  == CHOOSE c \in habitos_config : c.id = q[i].id
       IN  /\ Len(q) = Cardinality(activos)
           /\ {q[i].id : i \in DOMAIN q} = Ids(activos)
           /\ \A i, j \in DOMAIN q : i < j => def(i).orden < def(j).orden
           /\ \A i \in DOMAIN q :
                /\ q[i].nombre = def(i).nombre /\ q[i].emoji = def(i).emoji
                /\ q[i].completado =
                     (\E d \in habitos_diarios :
                        /\ d.user_id = last.user /\ d.habito_config_id = q[i].id
                        /\ d.fecha = last.fecha /\ d.completado = 1)
  /\ (deploy = "consulta_main" /\ last.op = "get_habitos_hoy") =>
       /\ HABITOS_DEFAULT \subseteq DOMAIN last.arg
       /\ \A h \in DOMAIN last.arg :
            last.arg[h] = (\E r \in habitos : /\ r.chat_id = last.user /\ r.fecha = last.fecha
                                            /\ r.habito = h /\ r.completado = 1)

\* the user has an inactive definition, another user has one too, and the
\* answer holds a completed entry and an entry whose row says not completed
C7_Witness ==
  /\ deploy = "consulta" /\ last.op = "get_habitos_hoy"
  /\ \E c \in habitos_config : c.user_id = last.user /\ c.activo = 0
  /\ \E c \in habitos_config : c.user_id # last.user
  /\ Len(last.arg) = 2
  /\ last.arg[1].completado /\ ~ last.arg[2].completado
  /\ \E d \in habitos_diarios : d.user_id = last.user /\ d.completado = 0
                                /\ d.fecha = last.fecha /\ d.habito_config_id = 3

\* C8: guardar_habitos_config of a registered user who has completion rows
\* on the definitions being replaced completes, the definitions become the
\* new list, and every completion row is kept as it was.
C8_SaveKeepsCompletions ==
  [][ ( /\ deploy = "store" /\ ~ leak
        /\ last'.op = "guardar_habitos_config"
        /\ \A i \in DOMAIN last'.arg :
             /\ "nombre" \in DOMAIN last'.arg[i]
             /\ last'.arg[i].nombre \notin {Nulo, Lista}
             /\ "emoji" \in DOMAIN last'.arg[i] => last'.arg[i].emoji # Lista
        /\ last'.user \in Ids(users_cfg)
        /\ hc_seq + Len(last'.arg) <= MaxHcId
        /\ \E d \in habitos_diarios : \E c \in habitos_config :
             c.id = d.habito_config_id /\ c.user_id = last'.user )
      => /\ last'.raised = "none"
         /\ Len(get_habitos_config(habitos_config', last'.user)) = Len(last'.arg)
         /\ habitos_diarios' = habitos_diarios ]_vars

\* C9: a replace-all save (guardar_habitos_config, guardar_recordatorios)
\* that raises, at the DELETE or at any INSERT after it (missing key, NULL
\* in a NOT NULL column, unknown user, locked database), leaves what every
\* connection reads as it was before the call: the user's definitions and
\* reminders are the lists from before, neither emptied nor a prefix of the
\* new list, and the tables and their id sequences are unchanged; releasing
\* the connection the failed save left open changes nothing either.
C9_SaveAllOrNothing ==
  [][ /\ (/\ last'.op \in {"guardar_habitos_config", "guardar_recordatorios"}
           /\ last'.raised # "none") =>
            /\ get_habitos_config(habitos_config', last'.user)
                 = get_habitos_config(habitos_config, last'.user)
            /\ get_recordatorios(recordatorios_config', last'.user)
                 = get_recordatorios(recordatorios_config, last'.user)
            /\ habitos_config' = habitos_config /\ hc_seq' = hc_seq
            /\ recordatorios_config' = recordatorios_config /\ rc_seq' = rc_seq
      /\ (leak /\ ~ leak') =>
            /\ habitos_config' = habitos_config /\ hc_seq' = hc_seq
            /\ recordatorios_config' = recordatorios_config /\ rc_seq' = rc_seq ]_vars

\* a save of two items by a registered user with no completion row raised
\* IntegrityError at the INSERT of its second item, whose nombre is null,
\* after the DELETE and the first INSERT; the user still has the definition
\* saved before, and the connection of the save is still open
C9_Witness ==
  /\ deploy = "store"
  /\ last.op = "guardar_habitos_config" /\ last.raised = "IntegrityError"
  /\ Len(last.arg) = 2 /\ last.arg[1].nombre # Nulo /\ last.arg[2].nombre = Nulo
  /\ habitos_diarios = {}
  /\ Len(get_habitos_config(habitos_config, last.user)) = 1
  /\ get_habitos_config(habitos_config, last.user)[1].nombre # last.arg[1].nombre
  /\ leak

\* C10: no completion row exists for a habit that is not an active
\* definition of the row's own user (a toggle naming such a habit creates none).
C10_NoForeignToggle ==
  \A d \in habitos_diarios :
    \E c \in habitos_config :
      c.id = d.habito_config_id /\ c.user_id = d.user_id /\ c.activo = 1

\* C11: the closing line of /resumen is a function of (completados, total)
\* with 0 <= completados <= total: completados = total > 0 gives the perfect
\* day line; otherwise completados >= 3 gives good progress; otherwise
\* 0 < completados < 3 gives started; completados = 0 gives not started.
C11_Tiers ==
  (last.op = "cmd_resumen") =>
    LET c == last.arg.completados
        t == last.arg.total
        hechos == {r \in habitos : r.chat_id = last.user /\ r.fecha = last.fecha
                                   /\ r.completado = 1}
    IN  /\ c = Cardinality(hechos) /\ 0 <= c /\ c <= t
        /\ (c = t /\ t > 0) => last.arg.cierre = "dia_perfecto"
        /\ (c # t /\ c >= 3) => last.arg.cierre = "buen_trabajo"
        /\ (c # t /\ 0 < c /\ c < 3) => last.arg.cierre = "has_empezado"
        /\ (c = 0) => last.arg.cierre = "estas_a_tiempo"

\* /resumen has answered a chat with three of its five habits completed
C11_Witness ==
  /\ last.op = "cmd_resumen"
  /\ last.arg.completados = 3 /\ last.arg.total = 5
  /\ last.arg.cierre = "buen_trabajo"

\* C12: the text of an automatic summary reminder is one line per habit of
\* the user with that habit's completion state of today, followed by the
\* closing line of the tier the tier selector gives for the user's
\* (completados, total) of today.
C12_SummaryClosing ==
  (last.op = "enviar_recordatorio" /\ last.arg.titulo = "RESUMEN DEL DIA") =>
    LET estados == get_habitos_hoy(habitos, last.user, last.fecha)
    IN  /\ Len(last.arg.lineas) = Cardinality(DOMAIN estados)
        /\ \A i \in DOMAIN last.arg.lineas :
             last.arg.lineas[i].icono = estados[last.arg.lineas[i].nombre]
        /\ last.arg.cierre = cierre_resumen(last.arg.completados, last.arg.total)

\* C13: the weekly rollup for a valid date D returns exactly 7 entries whose
\* dates are the 7 consecutive calendar dates D-6 .. D in ascending order
\* (2026-02-12 .. 2026-02-18 for D = 2026-02-18), also across month and year
\* boundaries, and each entry's completed count is the number of habits
\* reported completed for that entry's date.
C13_WeeklyRollup ==
  (last.op = "get_habitos_semana" /\ strptime(last.fecha) # ValueError) =>
    LET D == toordinal(strptime(last.fecha))
    IN  /\ Len(last.arg) = 7
        /\ \A k \in 1..7 :
             /\ last.arg[k].fecha = strftime(fromordinal(D - 7 + k))
             /\ last.arg[k].completados =
                  Cardinality({h \in DOMAIN last.arg[k].habitos : last.arg[k].habitos[h]})
        /\ (last.fecha = <<"2","0","2","6","-","0","2","-","1","8">>) =>
             [k \in 1..7 |-> last.arg[k].fecha] =
               <<"2026-02-12", "2026-02-13", "2026-02-14", "2026-02-15",
                 "2026-02-16", "2026-02-17", "2026-02-18">>
        /\ (last.fecha = <<"2","0","2","4","-","0","3","-","0","2">>) =>
             [k \in 1..7 |-> last.arg[k].fecha] =
               <<"2024-02-25", "2024-02-26", "2024-02-27", "2024-02-28",
                 "2024-02-29", "2024-03-01", "2024-03-02">>
        /\ (last.fecha = <<"2","0","2","6","-","0","1","-","0","4">>) =>
             [k \in 1..7 |-> last.arg[k].fecha] =
               <<"2025-12-29", "2025-12-30", "2025-12-31", "2026-01-01",
                 "2026-01-02", "2026-01-03", "2026-01-04">>

\* C14: at a tick, a notification of reminder kind k is sent to a user if
\* and only if that user has a linked chat identity and an active reminder
\* of kind k whose configured HH:MM string equals the current time formatted
\* HH:MM; a user whose configured time differs, or who has no active
\* reminder of that kind, is not notified at that tick.
C14_DispatchMatch ==
  LET HHMM(reloj) == DosCifras(reloj[1]) \o ":" \o DosCifras(reloj[2])
      Activo(chat_id, tipo, reloj) ==
        \E u \in users_cfg, r \in recordatorios_config :
          /\ u.telegram_chat_id = chat_id /\ r.user_id = u.id
          /\ r.tipo = tipo /\ r.activo = 1 /\ r.hora = HHMM(reloj)
      Enviado(chat_id, tipo, fecha, reloj) ==
        \E i \in DOMAIN bot.envios :
          /\ bot.envios[i].chat_id = chat_id /\ bot.envios[i].tipo = tipo
          /\ bot.envios[i].fecha = fecha /\ bot.envios[i].reloj = reloj
  IN  /\ \A i \in DOMAIN bot.envios :
           Activo(bot.envios[i].chat_id, bot.envios[i].tipo, bot.envios[i].reloj)
      /\ (bot.scan = NoScan /\ last.op = "enviar_recordatorio") =>
           \A u \in users_cfg, r \in recordatorios_config :
             (u.telegram_chat_id # None /\ r.user_id = u.id /\ r.activo = 1
              /\ r.hora = HHMM(bot.reloj)) =>
               Enviado(u.telegram_chat_id, r.tipo, hoy, bot.reloj)

\* C15: with one tick per minute and each minute observed once, delivery is
\* triggered exactly once per match: a scan that starts takes every
\* registered chat exactly once, and when it has finished, for every user it
\* took there is exactly one send call to that user's chat for this reminder
\* kind on this day, never zero and never two.
C15_ExactlyOnce ==
  [][ /\ (bot.scan = NoScan /\ bot'.scan # NoScan) =>
           \A u \in users :
             Cardinality({p \in DOMAIN bot'.scan.usuarios :
                            bot'.scan.usuarios[p].chat_id = u.chat_id}) = 1
      /\ (bot.scan # NoScan /\ bot'.scan = NoScan) =>
           \A p \in DOMAIN bot.scan.usuarios :
             Cardinality({i \in DOMAIN bot'.envios :
                            /\ bot'.envios[i].chat_id = bot.scan.usuarios[p].chat_id
                            /\ bot'.envios[i].tipo = bot.scan.tipo
                            /\ bot'.envios[i].fecha = hoy}) = 1 ]_vars

\* the scan of the morning reminder has finished for two registered chats
C15_Witness ==
  /\ bot.scan = NoScan /\ last.op = "enviar_recordatorio"
  /\ \E i, j \in DOMAIN bot.envios :
       /\ bot.envios[i].chat_id = 1 /\ bot.envios[j].chat_id = 2
       /\ bot.envios[i].tipo = "manana" /\ bot.envios[j].tipo = "manana"
       /\ bot.envios[i].fecha = hoy /\ bot.envios[j].fecha = hoy

\* C16: within one scan, a failure while sending to one user does not abort
\* the scan: every other user of the scan still gets a send attempt,
\* whatever the position of the failing user and however many users fail.
C16_FailureIsolation ==
  [][ (bot.scan # NoScan /\ bot'.scan = NoScan) =>
        \A p \in DOMAIN bot.scan.usuarios :
          (\E q \in DOMAIN bot.scan.usuarios :
             q # p /\ bot.scan.usuarios[q].chat_id \in bot.caidos) =>
            \E i \in DOMAIN bot'.envios :
              /\ bot'.envios[i].chat_id = bot.scan.usuarios[p].chat_id
              /\ bot'.envios[i].tipo = bot.scan.tipo
              /\ bot'.envios[i].fecha = hoy
              /\ bot'.envios[i].reloj = bot.reloj ]_vars

\* a scan has finished in which the send to the first user raised and the
\* second user was sent the message
C16_Witness ==
  /\ bot.scan = NoScan /\ last.op = "enviar_recordatorio"
  /\ \E i \in DOMAIN bot.envios :
       /\ i + 1 \in DOMAIN bot.envios
       /\ ~ bot.envios[i].ok /\ bot.envios[i + 1].ok
       /\ bot.envios[i].reloj = bot.envios[i + 1].reloj
       /\ bot.envios[i].fecha = bot.envios[i + 1].fecha
       /\ bot.envios[i].chat_id # bot.envios[i + 1].chat_id

\* C17: when guardar_recordatorios(user, L) returns, get_recordatorios(user)
\* returns exactly the (tipo, hora) entries of L and nothing of the user's
\* earlier configuration; get_recordatorios never returns a row marked
\* inactive or a row of another user; and a save by one user, whether it
\* returns or raises (an item without tipo or hora, or with a null one),
\* leaves every other user's reminder rows unchanged.
C17_Reminders ==
  [][ /\ (last'.op = "guardar_recordatorios" /\ last'.raised = "none") =>
           LET got == get_recordatorios(recordatorios_config', last'.user)
               par(r) == [tipo |-> r.tipo, hora |-> r.hora]
           IN  /\ Len(got) = Len(last'.arg)
               /\ \A x \in {last'.arg[i] : i \in DOMAIN last'.arg} :
                    Cardinality({i \in DOMAIN got : par(got[i]) = x})
                      = Cardinality({i \in DOMAIN last'.arg : last'.arg[i] = x})
      /\ (last'.op = "get_recordatorios") =>
           \A i \in DOMAIN last'.arg :
             /\ last'.arg[i] \in recordatorios_config'
             /\ last'.arg[i].user_id = last'.user
             /\ last'.arg[i].activo = 1
      /\ (last'.op = "guardar_recordatorios") =>
           \A r \in recordatorios_config \cup recordatorios_config' :
             r.user_id # last'.user =>
               (r \in recordatorios_config /\ r \in recordatorios_config') ]_vars

\* user 1 has saved a list of one entry over an earlier configuration while
\* an inactive row of user 2 is in the table
C17_Witness ==
  /\ last.op = "guardar_recordatorios" /\ last.raised = "none" /\ last.user = 1
  /\ rc_seq = 4 /\ Cardinality(recordatorios_config) = 2
  /\ \E r \in recordatorios_config : r.user_id = 1 /\ r.id = 4
  /\ \E r \in recordatorios_config : r.user_id = 2 /\ r.activo = 0

\* C18: after any sequence of createSession and resolveSession calls,
\* resolveSession(token) returns the id of the user the token was issued for
\* and never another user's id, and resolveSession of a token that was never
\* issued fails with Unauthenticated: an issued token is new, stays bound to
\* the user it was issued for, and resolving changes nothing.
C18_SessionIsolation ==
  [][ /\ (last'.op = "createSession") =>
           /\ last'.arg \notin DOMAIN sessions
           /\ DOMAIN sessions' = DOMAIN sessions \cup {last'.arg}
           /\ sessions'[last'.arg] = last'.user
           /\ \A t \in DOMAIN sessions : sessions'[t] = sessions[t]
      /\ (last'.op = "resolveSession") =>
           /\ sessions' = sessions
           /\ IF last'.arg \in DOMAIN sessions
              THEN last'.raised = "none" /\ last'.user = sessions[last'.arg]
              ELSE last'.raised = "Unauthenticated" /\ last'.user = NoCall.user ]_vars

\* a token issued for user 1 resolves to user 1 after a session was created
\* for user 2 as well
C18_Witness ==
  /\ last.op = "resolveSession" /\ last.raised = "none" /\ last.user = 1
  /\ \E t \in DOMAIN sessions : sessions[t] = 2

\* C19: every user-scoped API operation first resolves the caller's session
\* and reads or writes only the rows of the resolved user; a request without
\* a valid session changes no state: a toggle through the API either leaves
\* the habit rows as they were or acts for a user that a session of the
\* table resolves to, and then only on rows of that user.
C19_ApiScoped ==
  [][ (last'.op = "toggle_habito_api") =>
        \/ habitos' = habitos
        \/ /\ \E t \in DOMAIN sessions : sessions[t] = last'.user
           /\ \A r \in habitos \cup habitos' :
                r.chat_id # last'.user => (r \in habitos /\ r \in habitos') ]_vars

\* C20: registering with an email that already belongs to a user (compared
\* after lower-casing and trimming) returns the result {"ok": False} and
\* raises no error of the storage, and leaves the tables users and
\* user_config unchanged: no second user and no second config row.
C20_DuplicateEmail ==
  [][ (/\ last'.op = "registrar_usuario"
       /\ \E r \in users_cfg : r.email = lower_strip(last'.arg[1])) =>
        /\ users_cfg' = users_cfg
        /\ user_config' = user_config
        /\ last'.raised = "ok_false" ]_vars

\* C21: every date-taking API operation (habits for date, toggle for date,
\* weekly rollup) given a malformed date string fails with InvalidInput
\* (HTTP 400) whatever the rest of the state is, also when no user is
\* registered, and leaves the stores unchanged: no completion row is ever
\* created under a string that is not a valid calendar date.
C21_MalformedDate ==
  LET Validas == {Cadena(cs) : cs \in {c \in FechasPedidas : strptime(c) # ValueError}}
                   \cup {r.fecha : r \in FilasSemana}
  IN  /\ (last.op = "get_habitos_semana" /\ strptime(last.fecha) = ValueError) =>
           last.raised = "HTTP400"
      /\ (last.op \in {"get_habitos", "toggle_habito_api"} /\ last.fecha \notin Validas) =>
           last.raised = "HTTP400"
      /\ \A r \in habitos : r.fecha \in Validas

\* C22: a user's linked chat identifier is set once: after the link
\* operation has bound a chat identity to a user, no later operation, a
\* further link call included, changes or clears that user's chat identifier.
C22_LinkedOnce ==
  [][ \A u \in users_cfg :
        u.telegram_chat_id # None =>
          \E v \in users_cfg' :
            v.id = u.id /\ v.telegram_chat_id = u.telegram_chat_id ]_vars

\* C23: on the clean-shutdown signal, a dispatch scan that is in flight
\* finishes (every user of that scan gets its send attempt) before the
\* notification sender is stopped and the process exits, and no new scan
\* starts after the shutdown has begun: a scan ends only with the send to
\* its last user, the sender is stopped only when no scan is in flight, and
\* once scheduler.shutdown has run no scan begins.
C23_CleanShutdown ==
  [][ /\ (bot.scan # NoScan /\ bot'.scan = NoScan) =>
           bot.scan.i = Len(bot.scan.usuarios)
      /\ (BotEnvia(bot.fase) /\ ~ BotEnvia(bot'.fase)) => bot.scan = NoScan
      /\ (Hecho(bot.fase, "scheduler.shutdown") /\ bot.scan = NoScan) =>
           bot'.scan = NoScan ]_vars

\* C29: no reminder job runs and no chat command is handled before the
\* database tables have been created and the bot has been started, and at
\* shutdown the scheduler is stopped before the bot is stopped, so a
\* reminder scan never runs against an uninitialised store or a stopped bot.
C29_LifecycleOrder ==
  [][ /\ (last'.op \in {"tick", "enviar_recordatorio"}) =>
           /\ StoreListo(bot.fase) /\ Hecho(bot.fase, "start")
           /\ BotEnvia(bot.fase) /\ ~ Hecho(bot.fase, "stop")
      /\ (last'.op \in {"cmd_start", "cmd_resumen", "callback_habito"}) =>
           StoreListo(bot.fase) /\ Hecho(bot.fase, "start")
      /\ (Hecho(bot'.fase, "updater.stop") \/ Hecho(bot'.fase, "stop")
            \/ Hecho(bot'.fase, "shutdown")) =>
           /\ Hecho(bot'.fase, "scheduler.shutdown")
           /\ bot'.scan = NoScan ]_vars

\* a scan has sent a message while the process was serving, and the process
\* has since been shut down completely
C29_Witness ==
  /\ bot.fase = Len(lifespan)
  /\ \E i \in DOMAIN bot.envios : bot.envios[i].ok
  /\ last.op = "lifespan" /\ last.arg = "shutdown"

\* C24: the HTTP habit endpoints operate on the first registered user: once
\* at least one user is registered, the user whose habits the API reads and
\* toggles is the earliest-registered one and stays the same user after any
\* later registration or re-registration (/start) by other chats.
C24_FirstUserStable ==
  [][ (get_all_users(users) # <<>>) =>
        /\ get_all_users(users') # <<>>
        /\ get_all_users(users')[1].chat_id = get_all_users(users)[1].chat_id ]_vars

\* C25: a toggle on (user, habit, date) changes only that key: every
\* completion row of any other habit on that date and of any habit on any
\* other date is the same after the toggle as before it, in the store of
\* database.py (chat button, HTTP endpoint) and in the store of config.py
\* (one caller, and two callers at once, at the write and at its commit).
C25_ToggleFrame ==
  [][ /\ (last'.op \in {"callback_habito", "toggle_habito_api"}) =>
           \A r \in habitos \cup habitos' :
             ~ (r.chat_id = last'.user /\ r.fecha = last'.fecha /\ r.habito = last'.hid)
               => (r \in habitos /\ r \in habitos')
      /\ (last'.op = "toggle_habito") =>
           \A d \in habitos_diarios \cup habitos_diarios' :
             ~ (d.user_id = last'.user /\ d.fecha = last'.fecha
                /\ d.habito_config_id = last'.hid)
               => (d \in habitos_diarios /\ d \in habitos_diarios')
      /\ \A t \in Threads :
           (calls[t].pc \in {"selected", "written"} /\ calls'[t].pc # calls[t].pc) =>
             \A d \in habitos_diarios \cup habitos_diarios' :
               ~ (d.user_id = calls[t].user /\ d.fecha = calls[t].fecha
                  /\ d.habito_config_id = calls[t].hid)
                 => (d \in habitos_diarios /\ d \in habitos_diarios') ]_vars

\* a toggle in the store of config.py has succeeded while the same habit of
\* the same user has a completed row on another date
C25_Witness ==
  /\ last.op = "toggle_habito" /\ last.raised = "none"
  /\ \E d \in habitos_diarios :
       /\ d.user_id = last.user /\ d.habito_config_id = last.hid
       /\ d.fecha # last.fecha /\ d.completado = 1

\* C26: in the summaries (chat /resumen, summary reminder, API habits
\* response), after any sequence of toggles through the HTTP endpoint and
\* the chat button callback, the completed count never exceeds the reported
\* total of 5, so the percentage stays within 0..100 and the progress bar
\* always has exactly 10 cells (filled + empty).
C26_CountWithinTotal ==
  /\ (last.op = "cmd_resumen") =>
       /\ last.arg.completados <= last.arg.total
       /\ last.arg.porcentaje \in 0..100
       /\ last.arg.barra_llena + last.arg.barra_vacia = 10
  /\ (last.op = "get_habitos" /\ last.raised = "none") =>
       last.arg.completados <= last.arg.total
  /\ (last.op = "enviar_recordatorio" /\ last.arg.titulo = "RESUMEN DEL DIA") =>
       last.arg.completados <= last.arg.total

\* C27: in every reachable state no two users are linked to the same chat
\* identity, so looking a user up by chat identity is unambiguous and one
\* chat never receives the same reminder twice in one scan (the list of the
\* linked users names no chat twice).
C27_UniqueChat ==
  /\ \A u, v \in users_cfg :
       (u.id # v.id /\ u.telegram_chat_id # None) =>
         u.telegram_chat_id # v.telegram_chat_id
  /\ \A i, j \in DOMAIN get_all_users_with_telegram(users_cfg) :
       i # j => get_all_users_with_telegram(users_cfg)[i].telegram_chat_id
                  # get_all_users_with_telegram(users_cfg)[j].telegram_chat_id

\* C28: registering a chat through /start is idempotent on the stored state
\* that matters: after a /start that registered the chat_id, and after every
\* /start of a chat_id that was registered before, there is exactly one user
\* row for that chat_id; after every /start all other users' rows are
\* untouched and every habit completion row is unchanged; a repeated /start
\* under the same name changes no row at all.
C28_StartIdempotent ==
  [][ (last'.op = "cmd_start") =>
        /\ (last'.raised = "none" \/ \E r \in users : r.chat_id = last'.user) =>
             Cardinality({r \in users' : r.chat_id = last'.user}) = 1
        /\ {r \in users' : r.chat_id # last'.user} = {r \in users : r.chat_id # last'.user}
        /\ habitos' = habitos
        /\ (\E r \in users : r.chat_id = last'.user /\ r \in users') => users' = users ]_vars

\* chat 1 has sent /start while it has a completion row and chat 2 is
\* registered too
C28_Witness ==
  /\ last.op = "cmd_start" /\ last.user = 1 /\ last.raised = "none"
  /\ \E r \in users : r.chat_id = 2
  /\ \E h \in habitos : h.chat_id = 1

====
